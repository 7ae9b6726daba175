---------------------------- MODULE StorageProofs ---------------------------
(***************************************************************************)
(* Proofs about what is stored, in memory and in files: first Container,   *)
(* then Checkpoint.                                                        *)
(*                                                                         *)
(* Container, for any number of containers, layouts, arrays and addresses, *)
(* in a program that makes none of the delicate calls: the counters of the *)
(* memory pool are exact.                                                  *)
(*                                                                         *)
(* Checkpoint, for all sizes of jobs, objects and files: what was saved in *)
(* full is restored, a compressed checkpoint that was not is refused, and  *)
(* checkpoints are the store that CheckpointStore promises.                *)
(*                                                                         *)
(* A file is a row of pieces, one for each process, and SumBefore sums the *)
(* sizes of those before.  A piece is a buffer: its objects' identifiers,  *)
(* lengths and bytes, one object after the other.  The first sections say  *)
(* that reading gives back what was written; the invariant Kept says the   *)
(* same of each file, stream and input that the program has, torn ones     *)
(* included, and each action keeps it.                                     *)
(***************************************************************************)
EXTENDS Container, Checkpoint, DataLemmas

\* The owners of an array, as a function of the state they are counted in.
OwnersIn(arr, frg, a) ==
  {os \in Object \X Slot : ~frg[os[1]] /\ arr[os[1]][os[2]] = Start(a)}

OwnersBut(arr, frg, o, a) == {os \in OwnersIn(arr, frg, a) : os[1] # o}

\* How many references to a the object o owns.
OwnCount(arr, frg, o, a) == IF frg[o] THEN 0 ELSE Cardinality(SlotsAt(arr[o], a))

Balanced(arr, frg, n) == \A a \in Addr : n[a] = Cardinality(OwnersIn(arr, frg, a))

\* The slots that hold an address are finitely many.
LEMMA SlotsAtFinite ==
  ASSUME NEW m, NEW a
  PROVE  IsFiniteSet(SlotsAt(m, a)) /\ Cardinality(SlotsAt(m, a)) \in Nat
<1>1. SlotsAt(m, a) \in SUBSET Slot
  BY DEF SlotsAt
<1>2. IsFiniteSet(Slot)
  BY PointerAssumption
<1>. QED
  BY <1>1, <1>2, FS_Subset, FS_CardinalityType

\* Disjoint finite sets add up.
LEMMA DisjointUnion ==
  ASSUME NEW S, NEW T, IsFiniteSet(S), IsFiniteSet(T), S \cap T = {}
  PROVE  Cardinality(S \cup T) = Cardinality(S) + Cardinality(T)
<1>1. Cardinality(S \cup T) = Cardinality(S) + Cardinality(T) - Cardinality(S \cap T)
  BY FS_Union
<1>2. Cardinality(S \cap T) = 0
  BY FS_EmptySet
<1>3. Cardinality(S) \in Nat /\ Cardinality(T) \in Nat
  BY FS_CardinalityType
<1>. QED
  BY <1>1, <1>2, <1>3

\* Owners of an array are finitely many, and those of one object can be
\* counted apart.
LEMMA SplitOwners ==
  ASSUME NEW arr, NEW frg \in [Object -> BOOLEAN], NEW o \in Object, NEW a
  PROVE  /\ IsFiniteSet(OwnersIn(arr, frg, a))
         /\ IsFiniteSet(OwnersBut(arr, frg, o, a))
         /\ Cardinality(OwnersBut(arr, frg, o, a)) \in Nat
         /\ Cardinality(OwnersIn(arr, frg, a))
              = Cardinality(OwnersBut(arr, frg, o, a)) + OwnCount(arr, frg, o, a)
<1> DEFINE mine == {os \in OwnersIn(arr, frg, a) : os[1] = o}
           but == OwnersBut(arr, frg, o, a)
<1>1. IsFiniteSet(Object \X Slot)
  BY PointerAssumption, ContainerAssumption, FS_Product DEF Object
<1>2. IsFiniteSet(OwnersIn(arr, frg, a))
  BY <1>1, FS_Subset DEF OwnersIn
<1>3. /\ IsFiniteSet(mine) /\ IsFiniteSet(but)
      /\ Cardinality(mine) \in Nat /\ Cardinality(but) \in Nat
  BY <1>2, FS_Subset, FS_CardinalityType DEF OwnersBut
<1>4. mine \cap but = {} /\ mine \cup but = OwnersIn(arr, frg, a)
  BY DEF OwnersBut
<1>5. Cardinality(OwnersIn(arr, frg, a)) = Cardinality(mine) + Cardinality(but)
  <2> HIDE DEF mine, but
  <2>. QED
    BY <1>3, <1>4, DisjointUnion
<1>6. Cardinality(mine) = OwnCount(arr, frg, o, a)
  <2>1. CASE frg[o]
    <3>1. mine = {}
      BY <2>1 DEF OwnersIn
    <3>. QED
      BY <3>1, <2>1, FS_EmptySet DEF OwnCount
  <2>2. CASE ~frg[o]
    <3>1. mine = {o} \X SlotsAt(arr[o], a)
      BY <2>2 DEF OwnersIn, SlotsAt
    <3>2. IsFiniteSet({o}) /\ Cardinality({o}) = 1
      BY FS_Singleton
    <3>3. Cardinality(mine) = 1 * Cardinality(SlotsAt(arr[o], a))
      BY <3>1, <3>2, SlotsAtFinite, FS_Product
    <3>. QED
      BY <3>3, <2>2, SlotsAtFinite DEF OwnCount
  <2>. QED
    BY <2>1, <2>2
<1>7. OwnCount(arr, frg, o, a) \in Nat
  BY SlotsAtFinite DEF OwnCount
<1> HIDE DEF mine
<1>. QED
  BY <1>2, <1>3, <1>5, <1>6, <1>7

\* One object changes the references it owns, and the counters follow.
Follows(o, arr, frg, n, arr2, frg2, n2) ==
  /\ frg \in [Object -> BOOLEAN] /\ frg2 \in [Object -> BOOLEAN]
  /\ \A p \in Object \ {o} : arr2[p] = arr[p] /\ frg2[p] = frg[p]
  /\ \A a \in Addr :
       n2[a] = (n[a] - OwnCount(arr, frg, o, a)) + OwnCount(arr2, frg2, o, a)

\* Then they stay exact.
LEMMA Rebalance ==
  ASSUME NEW o \in Object, NEW arr, NEW frg, NEW n, NEW arr2, NEW frg2, NEW n2,
         Follows(o, arr, frg, n, arr2, frg2, n2), Balanced(arr, frg, n)
  PROVE  Balanced(arr2, frg2, n2)
<1> USE DEF Follows
<1> SUFFICES ASSUME NEW a \in Addr
             PROVE  n2[a] = Cardinality(OwnersIn(arr2, frg2, a))
  BY DEF Balanced
<1>1. OwnersBut(arr2, frg2, o, a) = OwnersBut(arr, frg, o, a)
  BY DEF OwnersBut, OwnersIn
<1>2. /\ Cardinality(OwnersIn(arr, frg, a))
           = Cardinality(OwnersBut(arr, frg, o, a)) + OwnCount(arr, frg, o, a)
      /\ Cardinality(OwnersIn(arr2, frg2, a))
           = Cardinality(OwnersBut(arr2, frg2, o, a)) + OwnCount(arr2, frg2, o, a)
      /\ Cardinality(OwnersBut(arr, frg, o, a)) \in Nat
  BY SplitOwners
<1>3. OwnCount(arr, frg, o, a) \in Nat /\ OwnCount(arr2, frg2, o, a) \in Nat
  BY SlotsAtFinite DEF OwnCount
<1>4. n[a] = Cardinality(OwnersIn(arr, frg, a))
  BY DEF Balanced
<1>5. n2[a] = (n[a] - OwnCount(arr, frg, o, a)) + OwnCount(arr2, frg2, o, a)
  OBVIOUS
<1>. QED
  BY <1>1, <1>2, <1>3, <1>4, <1>5

----------------------------------------------------------------------------
(* Lists of pointers.                                                      *)

\* Start addresses are pointers, never null, and tell addresses apart.
LEMMA Starts ==
  /\ \A a \in Addr : Start(a) \in Pointer /\ Sized(Start(a)) /\ Start(a)[1] = a
  /\ \A a : Start(a) = <<a, 0>>
  /\ \A p \in Pointer : Sized(p) <=> p \in Addr \X {0, 1}
BY PointerAssumption DEF Start, Pointer, Sized

\* The empty list owns nothing.
LEMMA NoArraysOwnNothing ==
  ASSUME NEW a \in Addr
  PROVE  SlotsAt(NoArrays, a) = {} /\ Cardinality(SlotsAt(NoArrays, a)) = 0
BY PointerAssumption, FS_EmptySet DEF SlotsAt, NoArrays, Start

\* What allocate_memory returns.
LEMMA AllocationsType ==
  ASSUME NEW n, NEW sized \in SUBSET Slot, NEW zero \in SUBSET Slot,
         NEW own \in Allocations(n, sized, zero)
  PROVE  /\ own \in [Slot -> Pointer]
         /\ \A s \in sized : \E a \in Addr : own[s] = Start(a)
         /\ \A s \in Slot \ sized : own[s] \in {NullPtr, NoPtr}
         /\ \A s \in Slot \ (sized \cup zero) : own[s] = NoPtr
<1>1. PICK f \in [sized -> {a \in Addr : ~InPool(n, a)}] :
        own = [s \in Slot |-> IF s \in sized THEN Start(f[s])
                              ELSE IF s \in zero THEN NullPtr ELSE NoPtr]
  BY DEF Allocations
<1>2. \A s \in sized : f[s] \in Addr /\ own[s] = Start(f[s])
  BY <1>1
<1>3. own \in [Slot -> Pointer]
  BY <1>1, <1>2, Starts DEF Pointer
<1>. QED
  BY <1>1, <1>2, <1>3

\* Sharing in some slots and allocating in others, an object owns as much as
\* it increased and allocated.
LEMMA MergedCount ==
  ASSUME NEW shared, NEW own, NEW a \in Addr,
         \A s \in Slot : shared[s] # NoPtr => own[s] \in {NullPtr, NoPtr}
  PROVE  LET m == [s \in Slot |-> IF shared[s] = NoPtr THEN own[s] ELSE shared[s]]
         IN  Cardinality(SlotsAt(m, a))
               = Cardinality(SlotsAt(shared, a)) + Cardinality(SlotsAt(own, a))
<1> DEFINE m == [s \in Slot |-> IF shared[s] = NoPtr THEN own[s] ELSE shared[s]]
<1>1. Start(a) \notin {NullPtr, NoPtr}
  BY Starts DEF Sized
<1>2. SlotsAt(shared, a) \cap SlotsAt(own, a) = {}
  BY <1>1 DEF SlotsAt
<1>3. SlotsAt(m, a) = SlotsAt(shared, a) \cup SlotsAt(own, a)
  BY <1>1 DEF SlotsAt
<1>. QED
  BY <1>2, <1>3, SlotsAtFinite, DisjointUnion

\* The heap keeps its type, whatever is allocated and freed.
LEMMA HeapType ==
  ASSUME heap \in [Addr -> Content], NEW n, NEW own, NEW contents,
         \A s \in Slot : \A a \in Addr : own[s] = Start(a) => contents[s] \in Content
  PROVE  HeapWith(n, own, contents) \in [Addr -> Content]
<1> SUFFICES ASSUME NEW a \in Addr
             PROVE  (IF ~InPool(n, a) THEN Undef
                     ELSE IF SlotsAt(own, a) # {} THEN contents[CHOOSE s \in SlotsAt(own, a) : TRUE]
                     ELSE heap[a]) \in Content
  BY DEF HeapWith
<1>1. SlotsAt(own, a) # {} => contents[CHOOSE s \in SlotsAt(own, a) : TRUE] \in Content
  BY DEF SlotsAt
<1>. QED
  BY <1>1 DEF Content

----------------------------------------------------------------------------
(* The three kinds of steps that change who owns what.                     *)

\* The invariant's counters, in the form the lemmas above have.
LEMMA RefCountIsBalanced == RefCount <=> Balanced(arrays, foreign, pool)
BY DEF RefCount, Balanced, Owners, OwnersIn

\* A step that ends the program or does nothing to the objects.
LEMMA UnchangedInv ==
  ASSUME Inv, UNCHANGED <<live, arrays, foreign, origin, pool>>,
         heap' \in [Addr -> Content],
         fault' \in {"none", "assert", "throw", "leak", "done"}
  PROVE  Inv'
<1>1. TypeOK'
  BY DEF Inv, TypeOK
<1>2. RefCount'
  BY DEF Inv, RefCount, Owners
<1>3. IdleObjects' /\ OwnersHoldStarts' /\ LayoutsHoldIndices'
  BY DEF Inv, IdleObjects, OwnersHoldStarts, LayoutsHoldIndices
<1>4. RangesPointIntoOrigin'
  BY DEF Inv, RangesPointIntoOrigin, SizedIn
<1>. QED
  BY <1>1, <1>2, <1>3, <1>4 DEF Inv

\* What Adopt does if it does not fail.
LEMMA AdoptIs ==
  ASSUME NEW o, NEW n, NEW shared, NEW sized \in SUBSET Slot, NEW zero \in SUBSET Slot, NEW contents,
         Adopt(o, n, shared, sized, zero, contents, FALSE),
         ~Fail("assert"), ~Fail("throw")
  PROVE  \E own \in [Slot -> Pointer] :
           /\ own \in Allocations(n, sized, zero)
           /\ \A s \in sized : \E a \in Addr : own[s] = Start(a)
           /\ \A s \in Slot \ sized : own[s] \in {NullPtr, NoPtr}
           /\ \A s \in Slot \ (sized \cup zero) : own[s] = NoPtr
           /\ CanIncrease(n, shared)
           /\ arrays' = [arrays EXCEPT ![o] = [s \in Slot |-> IF shared[s] = NoPtr THEN own[s] ELSE shared[s]]]
           /\ pool' = Increase(Increase(n, shared), own)
           /\ heap' = HeapWith(pool', own, contents)
           /\ live' = live \cup {o}
           /\ foreign' = [foreign EXCEPT ![o] = FALSE]
           /\ origin' = [origin EXCEPT ![o] = o]
           /\ fault' = fault
<1>1. PICK own \in Allocations(n, sized, zero) :
        /\ CanIncrease(n, shared)
        /\ arrays' = [arrays EXCEPT ![o] = [s \in Slot |-> IF shared[s] = NoPtr THEN own[s] ELSE shared[s]]]
        /\ pool' = Increase(Increase(n, shared), own)
        /\ heap' = HeapWith(pool', own, contents)
        /\ live' = live \cup {o}
        /\ foreign' = [foreign EXCEPT ![o] = FALSE]
        /\ origin' = [origin EXCEPT ![o] = o]
        /\ fault' = fault
  BY DEF Adopt
<1>2. /\ own \in [Slot -> Pointer]
      /\ \A s \in sized : \E a \in Addr : own[s] = Start(a)
      /\ \A s \in Slot \ sized : own[s] \in {NullPtr, NoPtr}
      /\ \A s \in Slot \ (sized \cup zero) : own[s] = NoPtr
  BY <1>1, AllocationsType
<1> QED
  BY <1>1, <1>2

\* An object that gave back what it owned shares and allocates arrays.
LEMMA AdoptInv ==
  ASSUME Inv, NEW o \in Object, NEW n \in Pool,
         \A a \in Addr : n[a] = pool[a] - OwnCount(arrays, foreign, o, a),
         NEW shared \in [Slot -> Pointer],
         NEW sized \in SUBSET Slot, NEW zero \in SUBSET Slot, NEW contents,
         \A s \in sized \cup zero : shared[s] = NoPtr,
         \A s \in sized : contents[s] \in Content,
         o \in Layout => \A s \in ElementSlot : shared[s] = NoPtr /\ s \notin sized \cup zero,
         Settled(o),
         fault = "none",
         Adopt(o, n, shared, sized, zero, contents, FALSE)
  PROVE  Inv'
<1>1. CASE Fail("assert") \/ Fail("throw")
  <2>. QED
    BY <1>1, UnchangedInv DEF Fail, Inv, TypeOK
<1>2. CASE ~Fail("assert") /\ ~Fail("throw")
  <2> DEFINE M(own) == [s \in Slot |-> IF shared[s] = NoPtr THEN own[s] ELSE shared[s]]
  <2>1. PICK own \in [Slot -> Pointer] :
          /\ own \in Allocations(n, sized, zero)
          /\ \A s \in sized : \E a \in Addr : own[s] = Start(a)
          /\ \A s \in Slot \ sized : own[s] \in {NullPtr, NoPtr}
          /\ \A s \in Slot \ (sized \cup zero) : own[s] = NoPtr
          /\ CanIncrease(n, shared)
          /\ arrays' = [arrays EXCEPT ![o] = M(own)]
          /\ pool' = Increase(Increase(n, shared), own)
          /\ heap' = HeapWith(pool', own, contents)
          /\ live' = live \cup {o}
          /\ foreign' = [foreign EXCEPT ![o] = FALSE]
          /\ origin' = [origin EXCEPT ![o] = o]
          /\ fault' = fault
    BY <1>2, AdoptIs
  <2> DEFINE m == M(own)
  <2>2. /\ own \in [Slot -> Pointer]
        /\ \A s \in sized : \E a \in Addr : own[s] = Start(a)
        /\ \A s \in Slot \ sized : own[s] \in {NullPtr, NoPtr}
        /\ \A s \in Slot \ (sized \cup zero) : own[s] = NoPtr
    BY <2>1
  <2>3. /\ m \in [Slot -> Pointer]
        /\ \A s \in Slot : m[s] \in {NullPtr, NoPtr} \cup {Start(a) : a \in Addr}
    <3>1. \A s \in Slot : shared[s] = NoPtr \/ \E a \in Addr : shared[s] = Start(a)
      BY <2>1 DEF CanIncrease
    <3>2. \A s \in Slot : own[s] \in {NullPtr, NoPtr} \cup {Start(a) : a \in Addr}
      BY <2>2
    <3>. QED
      BY <3>1, <3>2, <2>2
  <2>4. pool' \in Pool /\ \A a \in Addr : pool'[a] = n[a] + Cardinality(SlotsAt(m, a))
    <3>1. \A s \in Slot : shared[s] # NoPtr => own[s] \in {NullPtr, NoPtr}
      BY <2>2
    <3>2. \A a \in Addr : Cardinality(SlotsAt(m, a))
            = Cardinality(SlotsAt(shared, a)) + Cardinality(SlotsAt(own, a))
      BY <3>1, MergedCount
    <3>3. \A a \in Addr : /\ Cardinality(SlotsAt(shared, a)) \in Nat
                          /\ Cardinality(SlotsAt(own, a)) \in Nat
      BY SlotsAtFinite
    <3>4. /\ pool' = [a \in Addr |-> Increase(n, shared)[a] + Cardinality(SlotsAt(own, a))]
          /\ Increase(n, shared) = [a \in Addr |-> n[a] + Cardinality(SlotsAt(shared, a))]
      BY <2>1 DEF Increase
    <3>5. \A a \in Addr :
            pool'[a] = (n[a] + Cardinality(SlotsAt(shared, a))) + Cardinality(SlotsAt(own, a))
      BY <3>4
    <3>6. \A a \in Addr : n[a] \in Nat
      BY DEF Pool
    <3>7. \A a \in Addr : pool'[a] = n[a] + Cardinality(SlotsAt(m, a)) /\ pool'[a] \in Nat
      <4> HIDE DEF m
      <4>. QED
        BY <3>2, <3>3, <3>5, <3>6
    <3>. QED
      BY <3>4, <3>7 DEF Pool
  <2>5. TypeOK'
    <3>1. heap' \in [Addr -> Content]
      <4>1. \A s \in Slot : \A a \in Addr : own[s] = Start(a) => contents[s] \in Content
        BY <2>2, Starts DEF Sized
      <4>. QED
        BY <4>1, <2>1, HeapType DEF Inv, TypeOK
    <3>2. arrays' \in [Object -> [Slot -> Pointer]]
      <4> HIDE DEF m
      <4>. QED
        BY <2>1, <2>3 DEF Inv, TypeOK, m
    <3>3. /\ live' \subseteq Object /\ foreign' \in [Object -> BOOLEAN]
          /\ origin' \in [Object -> Object] /\ fault' = "none"
      BY <2>1 DEF Inv, TypeOK
    <3>. QED
      BY <2>4, <3>1, <3>2, <3>3 DEF TypeOK
  <2>6. RefCount'
    <3>1. /\ foreign \in [Object -> BOOLEAN] /\ foreign' \in [Object -> BOOLEAN]
          /\ \A p \in Object \ {o} : arrays'[p] = arrays[p] /\ foreign'[p] = foreign[p]
      BY <2>1, <2>5 DEF Inv, TypeOK
    <3>2. arrays'[o] = m /\ ~foreign'[o]
      BY <2>1 DEF Inv, TypeOK
    <3>3. \A a \in Addr : pool'[a] = (pool[a] - OwnCount(arrays, foreign, o, a))
                                     + OwnCount(arrays', foreign', o, a)
      BY <2>4, <3>2 DEF OwnCount
    <3>4. Balanced(arrays, foreign, pool)
      BY RefCountIsBalanced DEF Inv
    <3>5. Follows(o, arrays, foreign, pool, arrays', foreign', pool')
      BY <3>1, <3>3 DEF Follows
    <3>6. Balanced(arrays', foreign', pool')
      BY <3>4, <3>5, Rebalance
    <3>. QED
      BY <3>6 DEF RefCount, Owners, Balanced, OwnersIn
  <2>7. IdleObjects'
    BY <2>1 DEF Inv, TypeOK, IdleObjects
  <2>8. OwnersHoldStarts'
    BY <2>1, <2>3 DEF Inv, TypeOK, OwnersHoldStarts
  <2>9. RangesPointIntoOrigin'
    <3> SUFFICES ASSUME NEW p \in Object
                 PROVE  /\ foreign'[p] /\ origin'[p] = p => arrays'[p] = NoArrays
                        /\ origin'[p] # p =>
                             /\ foreign'[p] /\ ~foreign'[origin'[p]] /\ origin'[p] \in live' \cap Con
                             /\ \A s \in SizedIn(arrays'[p]) :
                                  arrays'[origin'[p]][s] = Start(arrays'[p][s][1])
      BY DEF RangesPointIntoOrigin
    <3>1. CASE p = o
      BY <3>1, <2>1 DEF Inv, TypeOK
    <3>2. CASE p # o
      <4>1. /\ arrays'[p] = arrays[p] /\ foreign'[p] = foreign[p] /\ origin'[p] = origin[p]
            /\ live \subseteq live'
        BY <3>2, <2>1 DEF Inv, TypeOK
      <4>2. origin[p] # p => origin[p] # o
        BY DEF Settled
      <4>3. origin[p] # p =>
              arrays'[origin[p]] = arrays[origin[p]] /\ foreign'[origin[p]] = foreign[origin[p]]
        BY <4>2, <2>1 DEF Inv, TypeOK
      <4>. QED
        BY <4>1, <4>3 DEF Inv, RangesPointIntoOrigin
    <3>. QED
      BY <3>1, <3>2
  <2>10. LayoutsHoldIndices'
    <3>1. o \in Layout => \A s \in ElementSlot : m[s] = NoPtr
      BY <2>2, ContainerAssumption
    <3>2. arrays'[o] = m /\ ~foreign'[o]
      BY <2>1 DEF Inv, TypeOK
    <3>3. \A p \in Object \ {o} : arrays'[p] = arrays[p] /\ foreign'[p] = foreign[p]
      BY <2>1 DEF Inv, TypeOK
    <3> HIDE DEF m
    <3>. QED
      BY <3>1, <3>2, <3>3 DEF Inv, LayoutsHoldIndices, Object
  <2>. QED
    BY <2>5, <2>6, <2>7, <2>8, <2>9, <2>10 DEF Inv
<1>. QED
  BY <1>1, <1>2

\* An object that gives back what it owns leaves a pool with counters that do
\* not count it any more.
LEMMA ReleaseOwned ==
  ASSUME Inv, NEW o \in Object
  PROVE  /\ Release(pool, Owned(o)) \in Pool
         /\ \A a \in Addr :
              Release(pool, Owned(o))[a] = pool[a] - OwnCount(arrays, foreign, o, a)
<1>1. \A a \in Addr : Cardinality(SlotsAt(Owned(o), a)) = OwnCount(arrays, foreign, o, a)
  BY NoArraysOwnNothing DEF Owned, OwnCount
<1>2. \A a \in Addr : Release(pool, Owned(o))[a] = pool[a] - OwnCount(arrays, foreign, o, a)
  BY <1>1 DEF Release
<1>3. ASSUME NEW a \in Addr
      PROVE  pool[a] - OwnCount(arrays, foreign, o, a) \in Nat
  <2>1. pool[a] = Cardinality(OwnersIn(arrays, foreign, a))
    BY RefCountIsBalanced DEF Inv, Balanced
  <2>2. foreign \in [Object -> BOOLEAN]
    BY DEF Inv, TypeOK
  <2>3. /\ Cardinality(OwnersBut(arrays, foreign, o, a)) \in Nat
        /\ Cardinality(OwnersIn(arrays, foreign, a))
             = Cardinality(OwnersBut(arrays, foreign, o, a)) + OwnCount(arrays, foreign, o, a)
    BY <2>2, SplitOwners
  <2>4. OwnCount(arrays, foreign, o, a) \in Nat
    BY SlotsAtFinite DEF OwnCount
  <2>. QED
    BY <2>1, <2>3, <2>4
<1>4. Release(pool, Owned(o)) \in Pool
  <2>1. Release(pool, Owned(o)) = [a \in Addr |-> Release(pool, Owned(o))[a]]
    BY DEF Release
  <2>. QED
    BY <2>1, <1>2, <1>3 DEF Pool
<1>. QED
  BY <1>2, <1>4

\* An object gives back all it owns.
LEMMA DiscardInv ==
  ASSUME Inv, NEW o \in Object, Settled(o), Discard(o),
         live' = live \/ live' = live \ {o},
         fault = "none"
  PROVE  Inv'
<1>1. /\ pool' = Release(pool, Owned(o))
      /\ heap' = HeapWith(pool', NoArrays, <<>>)
      /\ arrays' = [arrays EXCEPT ![o] = NoArrays]
      /\ foreign' = [foreign EXCEPT ![o] = FALSE]
      /\ origin' = [origin EXCEPT ![o] = o]
      /\ fault' = fault
  BY DEF Discard
<1>2. /\ arrays'[o] = NoArrays /\ ~foreign'[o] /\ origin'[o] = o
      /\ \A p \in Object \ {o} :
           arrays'[p] = arrays[p] /\ foreign'[p] = foreign[p] /\ origin'[p] = origin[p]
  BY <1>1 DEF Inv, TypeOK
<1>3. TypeOK'
  <2>1. pool' \in Pool
    BY <1>1, ReleaseOwned
  <2>2. heap' \in [Addr -> Content]
    <3>1. \A s \in Slot : \A a \in Addr : NoArrays[s] # Start(a)
      BY Starts DEF NoArrays, Sized
    <3>. QED
      BY <3>1, <1>1, HeapType DEF Inv, TypeOK
  <2>3. NoArrays \in [Slot -> Pointer]
    BY DEF NoArrays, Pointer
  <2>. QED
    BY <1>1, <2>1, <2>2, <2>3 DEF Inv, TypeOK
<1>4. RefCount'
  <2>1. \A a \in Addr : OwnCount(arrays', foreign', o, a) = 0
    BY <1>2, NoArraysOwnNothing DEF OwnCount
  <2>2. \A a \in Addr : OwnCount(arrays, foreign, o, a) \in Nat /\ pool[a] \in Nat
    BY SlotsAtFinite DEF OwnCount, Inv, TypeOK, Pool
  <2>3. \A a \in Addr : pool'[a] = (pool[a] - OwnCount(arrays, foreign, o, a))
                                    + OwnCount(arrays', foreign', o, a)
    <3>1. \A a \in Addr : pool'[a] = pool[a] - OwnCount(arrays, foreign, o, a)
      BY <1>1, ReleaseOwned
    <3>. QED
      BY <3>1, <2>1, <2>2
  <2>4. foreign \in [Object -> BOOLEAN] /\ foreign' \in [Object -> BOOLEAN]
    BY <1>3 DEF Inv, TypeOK
  <2>5. Follows(o, arrays, foreign, pool, arrays', foreign', pool')
    BY <2>3, <2>4, <1>2 DEF Follows
  <2>6. Balanced(arrays', foreign', pool')
    BY <2>5, Rebalance, RefCountIsBalanced DEF Inv
  <2>. QED
    BY <2>6 DEF RefCount, Owners, Balanced, OwnersIn
<1>5. IdleObjects'
  BY <1>2 DEF Inv, IdleObjects
<1>6. OwnersHoldStarts'
  BY <1>2 DEF Inv, OwnersHoldStarts, NoArrays
<1>7. RangesPointIntoOrigin'
  <2>1. \A p \in Object : origin[p] # p => origin[p] # o
    BY DEF Settled
  <2>2. ASSUME NEW p \in Object \ {o}
        PROVE  /\ foreign'[p] /\ origin'[p] = p => arrays'[p] = NoArrays
               /\ origin'[p] # p =>
                    /\ foreign'[p] /\ ~foreign'[origin'[p]] /\ origin'[p] \in live' \cap Con
                    /\ \A s \in SizedIn(arrays'[p]) :
                         arrays'[origin'[p]][s] = Start(arrays'[p][s][1])
    <3>1. arrays'[p] = arrays[p] /\ foreign'[p] = foreign[p] /\ origin'[p] = origin[p]
      BY <1>2
    <3>2. origin[p] # p =>
            /\ arrays'[origin[p]] = arrays[origin[p]] /\ foreign'[origin[p]] = foreign[origin[p]]
            /\ origin[p] \in live => origin[p] \in live'
      BY <1>2, <2>1 DEF Inv, TypeOK
    <3>. QED
      BY <3>1, <3>2 DEF Inv, RangesPointIntoOrigin
  <2>. QED
    BY <1>2, <2>2 DEF RangesPointIntoOrigin
<1>8. LayoutsHoldIndices'
  BY <1>2, ContainerAssumption DEF Inv, LayoutsHoldIndices, NoArrays, Object
<1>. QED
  BY <1>3, <1>4, <1>5, <1>6, <1>7, <1>8 DEF Inv

\* An object that answers for its arrays gives them back and takes over those
\* of another one.
LEMMA HandOverInv ==
  ASSUME Inv, NEW o \in Object, NEW p \in Object, o # p, p \in live,
         o \in Layout <=> p \in Layout,
         ~foreign[o], origin[o] = o, Settled(o), Settled(p),
         HandOver(p, o),
         \A a \in Addr : pool'[a] = pool[a] - OwnCount(arrays, foreign, o, a),
         pool' \in Pool, heap' \in [Addr -> Content],
         live' = live \cup {o}, fault' = fault
  PROVE  Inv'
<1>1. /\ arrays' = [arrays EXCEPT ![o] = arrays[p], ![p] = NoArrays]
      /\ foreign' = [foreign EXCEPT ![o] = foreign[p]]
      /\ origin' = [origin EXCEPT ![o] = IF origin[p] = p THEN o ELSE origin[p], ![p] = p]
  BY DEF HandOver
<1>2. /\ arrays'[o] = arrays[p] /\ arrays'[p] = NoArrays
      /\ foreign'[o] = foreign[p] /\ foreign'[p] = foreign[p]
      /\ origin'[o] = (IF origin[p] = p THEN o ELSE origin[p]) /\ origin'[p] = p
      /\ \A q \in Object \ {o, p} :
           arrays'[q] = arrays[q] /\ foreign'[q] = foreign[q] /\ origin'[q] = origin[q]
  BY <1>1 DEF Inv, TypeOK
<1>3. TypeOK'
  <2>1. NoArrays \in [Slot -> Pointer]
    BY DEF NoArrays, Pointer
  <2>. QED
    BY <1>1, <2>1 DEF Inv, TypeOK
<1>4. RefCount'
  \* In between, o has given back its arrays, and p and o share those of p.
  <2> DEFINE arr1 == [arrays EXCEPT ![o] = arrays[p]]
             n1 == [a \in Addr |-> pool'[a] + OwnCount(arrays, foreign, p, a)]
  <2>1. \A a \in Addr : /\ OwnCount(arrays, foreign, o, a) \in Nat
                        /\ OwnCount(arrays, foreign, p, a) \in Nat
                        /\ pool[a] \in Nat
    BY SlotsAtFinite DEF OwnCount, Inv, TypeOK, Pool
  <2>2. \A a \in Addr : /\ OwnCount(arr1, foreign', o, a) = OwnCount(arrays, foreign, p, a)
                        /\ OwnCount(arr1, foreign', p, a) = OwnCount(arrays, foreign, p, a)
                        /\ OwnCount(arrays', foreign', p, a) = 0
    BY <1>2, NoArraysOwnNothing DEF OwnCount, Inv, TypeOK
  <2>3. Follows(o, arrays, foreign, pool, arr1, foreign', n1)
    BY <2>1, <2>2, <1>2, <1>3 DEF Follows, Inv, TypeOK
  <2>4. Balanced(arr1, foreign', n1)
    <3> HIDE DEF arr1, n1
    <3>. QED
      BY <2>3, Rebalance, RefCountIsBalanced DEF Inv
  <2>5. \A q \in Object \ {p} : arrays'[q] = arr1[q]
    BY <1>2 DEF Inv, TypeOK
  <2>6. \A a \in Addr : pool'[a] = (n1[a] - OwnCount(arr1, foreign', p, a)) + OwnCount(arrays', foreign', p, a)
    <3>1. \A a \in Addr : pool'[a] \in Nat /\ n1[a] = pool'[a] + OwnCount(arrays, foreign, p, a)
      BY DEF Pool
    <3> HIDE DEF arr1, n1
    <3>. QED
      BY <2>1, <2>2, <3>1
  <2>7. Follows(p, arr1, foreign', n1, arrays', foreign', pool')
    <3> HIDE DEF arr1, n1
    <3>. QED
      BY <2>5, <2>6, <1>3 DEF Follows, TypeOK
  <2>8. Balanced(arrays', foreign', pool')
    <3> HIDE DEF arr1, n1
    <3>. QED
      BY <2>4, <2>7, Rebalance
  <2>. QED
    BY <2>8 DEF RefCount, Owners, Balanced, OwnersIn
<1>5. IdleObjects'
  BY <1>2 DEF Inv, IdleObjects
<1>6. OwnersHoldStarts'
  BY <1>2 DEF Inv, OwnersHoldStarts, NoArrays
<1>7. RangesPointIntoOrigin'
  <2>1. \A q \in Object : origin[q] # q => origin[q] # o /\ origin[q] # p
    BY DEF Settled
  <2>2. \A q \in Object \ {o, p} : origin[q] # q =>
          arrays'[origin[q]] = arrays[origin[q]] /\ foreign'[origin[q]] = foreign[origin[q]]
    BY <1>2, <2>1 DEF Inv, TypeOK
  <2>3. origin[p] # p =>
          arrays'[origin[p]] = arrays[origin[p]] /\ foreign'[origin[p]] = foreign[origin[p]]
    BY <1>2, <2>1 DEF Inv, TypeOK
  <2>4. \A q \in Object \ {o, p} :
          /\ foreign'[q] /\ origin'[q] = q => arrays'[q] = NoArrays
          /\ origin'[q] # q =>
               /\ foreign'[q] /\ ~foreign'[origin'[q]] /\ origin'[q] \in live' \cap Con
               /\ \A s \in SizedIn(arrays'[q]) :
                    arrays'[origin'[q]][s] = Start(arrays'[q][s][1])
    BY <1>2, <2>2 DEF Inv, RangesPointIntoOrigin
  <2>5. /\ foreign'[o] /\ origin'[o] = o => arrays'[o] = NoArrays
        /\ origin'[o] # o =>
             /\ foreign'[o] /\ ~foreign'[origin'[o]] /\ origin'[o] \in live' \cap Con
             /\ \A s \in SizedIn(arrays'[o]) :
                  arrays'[origin'[o]][s] = Start(arrays'[o][s][1])
    BY <1>2, <2>1, <2>3 DEF Inv, RangesPointIntoOrigin
  <2>. QED
    BY <1>2, <2>4, <2>5 DEF RangesPointIntoOrigin
<1>8. LayoutsHoldIndices'
  BY <1>2, ContainerAssumption DEF Inv, LayoutsHoldIndices, NoArrays, Object
<1>. QED
  BY <1>3, <1>4, <1>5, <1>6, <1>7, <1>8 DEF Inv

----------------------------------------------------------------------------
(* The steps.                                                              *)

\* An object that is not constructed owns nothing, and nobody refers to it.
LEMMA NewObject ==
  ASSUME Inv, NEW o \in Object, New(o)
  PROVE  /\ arrays[o] = NoArrays /\ ~foreign[o] /\ origin[o] = o /\ Settled(o)
         /\ \A a \in Addr : pool[a] = pool[a] - OwnCount(arrays, foreign, o, a)
         /\ pool \in Pool
<1>1. arrays[o] = NoArrays /\ ~foreign[o] /\ origin[o] = o
  BY DEF Inv, IdleObjects, New
<1>2. Settled(o)
  BY DEF Inv, RangesPointIntoOrigin, New, Settled
<1>3. \A a \in Addr : OwnCount(arrays, foreign, o, a) = 0
  BY <1>1, NoArraysOwnNothing DEF OwnCount
<1>4. pool \in Pool /\ \A a \in Addr : pool[a] \in Nat
  BY DEF Inv, TypeOK, Pool
<1>. QED
  BY <1>1, <1>2, <1>3, <1>4

\* An object that answers for its arrays is no range.
LEMMA OwnerOrigin ==
  ASSUME Inv, NEW o \in Object, ~foreign[o]
  PROVE  origin[o] = o /\ Owned(o) = arrays[o]
BY DEF Inv, RangesPointIntoOrigin, Owned

\* The contents behind any pointer.
LEMMA AtType ==
  ASSUME Inv, NEW n, NEW p \in Pointer
  PROVE  At(n, p) \in Content
BY Starts DEF Inv, TypeOK, At, Content

\* Adopting arrays like those of another container.
LEMMA AdoptLikeInv ==
  ASSUME Inv, NEW c \in Con, NEW n \in Pool,
         \A a \in Addr : n[a] = pool[a] - OwnCount(arrays, foreign, c, a),
         NEW m \in [Slot -> Pointer], NEW share \in SUBSET Slot, NEW copy,
         Settled(c), fault = "none",
         AdoptLike(c, n, m, share, copy, FALSE)
  PROVE  Inv'
<1> DEFINE contents == [s \in Slot |-> IF s \in copy THEN At(n, m[s]) ELSE Undef]
<1>1. Adopt(c, n, Only(m, share), SizedIn(m) \ share, ZeroIn(m) \ share, contents, FALSE)
  BY DEF AdoptLike
<1>2. c \in Object /\ c \notin Layout
  BY ContainerAssumption DEF Object
<1>3. Only(m, share) \in [Slot -> Pointer]
  BY DEF Only, Pointer
<1>4. /\ SizedIn(m) \ share \in SUBSET Slot /\ ZeroIn(m) \ share \in SUBSET Slot
      /\ \A s \in (SizedIn(m) \ share) \cup (ZeroIn(m) \ share) : Only(m, share)[s] = NoPtr
  BY DEF SizedIn, ZeroIn, Only
<1>5. \A s \in SizedIn(m) \ share : contents[s] \in Content
  BY AtType DEF SizedIn, Content
<1> HIDE DEF contents
<1>. QED
  BY <1>1, <1>2, <1>3, <1>4, <1>5, AdoptInv

\* Writing to arrays.
LEMMA OverwriteInv ==
  ASSUME Inv, NEW c \in Object, NEW S \in SUBSET Slot, NEW contents \in [Slot -> Content],
         Overwrite(c, S, contents)
  PROVE  Inv'
<1>1. heap' \in [Addr -> Content]
  <2> DEFINE hit(a) == {s \in S : Sized(arrays[c][s]) /\ arrays[c][s][1] = a}
  <2>1. heap' = [a \in Addr |-> IF hit(a) = {} THEN heap[a] ELSE contents[CHOOSE s \in hit(a) : TRUE]]
    BY DEF Overwrite
  <2>2. \A a \in Addr : hit(a) # {} => contents[CHOOSE s \in hit(a) : TRUE] \in Content
    OBVIOUS
  <2>3. heap \in [Addr -> Content]
    BY DEF Inv, TypeOK
  <2> HIDE DEF hit
  <2>. QED
    BY <2>1, <2>2, <2>3
<1>2. UNCHANGED <<live, arrays, foreign, origin, pool>> /\ fault' = fault
  BY DEF Overwrite
<1>. QED
  BY <1>1, <1>2, UnchangedInv DEF Inv, TypeOK

\* A range is cut from a vector.
LEMMA MakeRangeInv ==
  ASSUME Inv, NEW c \in Con, NEW d \in Con, NEW inside \in {0, 1}, MakeRange(c, d, inside)
  PROVE  Inv'
<1> DEFINE Shift(p) == IF inside = 0 THEN p ELSE Inside(p[1])
           m == [s \in Slot |-> IF s \in ElementSlot THEN Shift(arrays[d][s]) ELSE NoPtr]
<1>1. /\ arrays' = [arrays EXCEPT ![c] = m]
      /\ foreign' = [foreign EXCEPT ![c] = TRUE]
      /\ origin' = [origin EXCEPT ![c] = origin[d]]
      /\ live' = live \cup {c}
      /\ UNCHANGED <<pool, heap, fault>>
      /\ New(c) /\ Live(d) /\ SizedIn(arrays[d]) = ElementSlot
  BY DEF MakeRange
<1>2. c \in Object /\ d \in Object /\ c # d /\ c \notin Layout
  BY <1>1, ContainerAssumption DEF Object, New, Live
<1>3. /\ \A s \in ElementSlot : arrays[d][s] \in Addr \X {0, 1}
      /\ \A s \in ElementSlot : m[s] \in Addr \X {0, 1} /\ m[s][1] = arrays[d][s][1]
      /\ \A s \in Slot \ ElementSlot : m[s] = NoPtr
  <2>1. \A s \in ElementSlot : arrays[d][s] \in Pointer /\ Sized(arrays[d][s])
    BY <1>1, <1>2 DEF Inv, TypeOK, SizedIn
  <2>2. \A s \in ElementSlot : arrays[d][s] \in Addr \X {0, 1}
    BY <2>1, Starts
  <2>3. \A p \in Addr \X {0, 1} : Shift(p) \in Addr \X {0, 1} /\ Shift(p)[1] = p[1]
    BY DEF Inside
  <2>4. \A s \in ElementSlot : m[s] = Shift(arrays[d][s])
    BY ContainerAssumption
  <2> HIDE DEF Shift
  <2>. QED
    BY <2>2, <2>3, <2>4
<1> HIDE DEF m
<1>4. m \in [Slot -> Pointer]
  <2>1. m = [s \in Slot |-> m[s]]
    BY DEF m
  <2>. QED
    BY <2>1, <1>3 DEF Pointer
<1>5. TypeOK'
  BY <1>1, <1>2, <1>4 DEF Inv, TypeOK
<1>6. /\ arrays'[c] = m /\ foreign'[c] /\ origin'[c] = origin[d]
      /\ \A p \in Object \ {c} :
           arrays'[p] = arrays[p] /\ foreign'[p] = foreign[p] /\ origin'[p] = origin[p]
  BY <1>1, <1>2 DEF Inv, TypeOK
<1>7. RefCount'
  <2>1. \A a \in Addr : /\ pool'[a] = pool[a] /\ pool[a] \in Nat
                        /\ OwnCount(arrays, foreign, c, a) = 0
                        /\ OwnCount(arrays', foreign', c, a) = 0
    BY <1>1, <1>2, <1>6, NewObject, NoArraysOwnNothing DEF OwnCount, Inv, TypeOK, Pool
  <2>2. \A a \in Addr : pool'[a] = (pool[a] - OwnCount(arrays, foreign, c, a))
                                   + OwnCount(arrays', foreign', c, a)
    BY <2>1
  <2>3. Follows(c, arrays, foreign, pool, arrays', foreign', pool')
    BY <2>2, <1>5, <1>6 DEF Follows, Inv, TypeOK
  <2>4. Balanced(arrays', foreign', pool')
    BY <2>3, <1>2, Rebalance, RefCountIsBalanced DEF Inv
  <2>. QED
    BY <2>4 DEF RefCount, Owners, Balanced, OwnersIn
<1>8. IdleObjects'
  BY <1>1, <1>6 DEF Inv, IdleObjects
<1>9. OwnersHoldStarts'
  BY <1>6 DEF Inv, OwnersHoldStarts
<1>10. RangesPointIntoOrigin'
  <2>1. \A p \in Object \ {c} : origin[p] # p => origin[p] # c
    BY <1>1, <1>2, NewObject DEF Settled
  <2>2. ASSUME NEW p \in Object \ {c}
        PROVE  /\ foreign'[p] /\ origin'[p] = p => arrays'[p] = NoArrays
               /\ origin'[p] # p =>
                    /\ foreign'[p] /\ ~foreign'[origin'[p]] /\ origin'[p] \in live' \cap Con
                    /\ \A s \in SizedIn(arrays'[p]) :
                         arrays'[origin'[p]][s] = Start(arrays'[p][s][1])
    <3>1. origin[p] # p =>
            arrays'[origin[p]] = arrays[origin[p]] /\ foreign'[origin[p]] = foreign[origin[p]]
      BY <1>6, <2>1 DEF Inv, TypeOK
    <3>2. /\ arrays'[p] = arrays[p] /\ foreign'[p] = foreign[p] /\ origin'[p] = origin[p]
          /\ live \subseteq live'
      BY <1>1, <1>6
    <3>. QED
      BY <3>1, <3>2 DEF Inv, RangesPointIntoOrigin
  <2>3. /\ ~foreign[origin[d]] /\ origin[d] \in live \cap Con
        /\ \A s \in ElementSlot : arrays[origin[d]][s] = Start(arrays[d][s][1])
    <3>1. CASE origin[d] = d
      <4>1. ~foreign[d]
        <5>1. PICK e \in ElementSlot : TRUE
          BY ContainerAssumption
        <5>2. arrays[d][e] # NoPtr
          BY <1>3, PointerAssumption
        <5>3. NoArrays[e] = NoPtr
          BY ContainerAssumption DEF NoArrays
        <5>. QED
          BY <5>2, <5>3, <3>1, <1>2 DEF Inv, RangesPointIntoOrigin
      <4>2. \A s \in ElementSlot : arrays[d][s] \in {Start(a) : a \in Addr}
        BY <4>1, <1>2, <1>3, PointerAssumption, ContainerAssumption DEF Inv, OwnersHoldStarts
      <4>3. \A s \in ElementSlot : arrays[d][s] = Start(arrays[d][s][1])
        BY <4>2, Starts
      <4>. QED
        BY <3>1, <4>1, <4>3, <1>1 DEF Live
    <3>2. CASE origin[d] # d
      BY <3>2, <1>1, <1>2 DEF Inv, RangesPointIntoOrigin
    <3>. QED
      BY <3>1, <3>2
  <2>4. origin[d] # c /\ origin[d] \in Object
    BY <2>3, <1>1 DEF New, Object
  <2>5. SizedIn(arrays'[c]) = ElementSlot
    BY <1>3, <1>6, PointerAssumption, ContainerAssumption DEF SizedIn, Sized
  <2>6. /\ foreign'[c] /\ origin'[c] # c
        /\ ~foreign'[origin'[c]] /\ origin'[c] \in live' \cap Con
        /\ \A s \in SizedIn(arrays'[c]) : arrays'[origin'[c]][s] = Start(arrays'[c][s][1])
    BY <1>1, <1>3, <1>6, <2>3, <2>4, <2>5
  <2>. QED
    BY <2>2, <2>6 DEF RangesPointIntoOrigin
<1>11. LayoutsHoldIndices'
  BY <1>2, <1>6 DEF Inv, LayoutsHoldIndices, Object
<1>. QED
  BY <1>5, <1>7, <1>8, <1>9, <1>10, <1>11 DEF Inv

----------------------------------------------------------------------------
(* All steps of a program without delicate calls.                          *)

\* A step that ends the program.
LEMMA FailInv ==
  ASSUME Inv, NEW kind \in {"assert", "throw", "leak", "done"}, Fail(kind)
  PROVE  Inv'
BY UnchangedInv DEF Fail, Inv, TypeOK

\* A constructor that allocates nothing.
LEMMA NothingAllocated ==
  /\ {} \in SUBSET Slot
  /\ \A shared : \A s \in {} \cup {} : shared[s] = NoPtr
  /\ \A s \in {} : <<>>[s] \in Content
  /\ \A s : s \notin {} \cup {}
OBVIOUS

\* A constructor of any object.
LEMMA AdoptNewInv ==
  ASSUME Inv, NEW o \in Object, New(o), NEW shared \in [Slot -> Pointer],
         NEW sized \in SUBSET Slot, NEW zero \in SUBSET Slot, NEW contents,
         \A s \in sized \cup zero : shared[s] = NoPtr,
         \A s \in sized : contents[s] \in Content,
         o \in Layout => \A s \in ElementSlot : shared[s] = NoPtr /\ s \notin sized \cup zero,
         Adopt(o, pool, shared, sized, zero, contents, FALSE)
  PROVE  Inv'
<1>1. /\ Settled(o) /\ pool \in Pool
      /\ \A a \in Addr : pool[a] = pool[a] - OwnCount(arrays, foreign, o, a)
  BY NewObject
<1>2. fault = "none"
  BY DEF New
<1>. QED
  BY <1>1, <1>2, AdoptInv

\* Constructors and the destructor.
LEMMA LifeInv ==
  ASSUME Inv, Permit = {}, NEW c \in Con, LifeOf(c)
  PROVE  Inv'
<1>1. c \in Object /\ c \notin Layout
  BY ContainerAssumption DEF Object
<1>2. NoArrays \in [Slot -> Pointer] /\ \A s \in Slot : NoArrays[s] = NoPtr
  BY DEF NoArrays, Pointer
<1>3. ASSUME NEW shape \in Shapes, NEW v \in Content, Construct(c, shape, v)
      PROVE  Inv'
  <2>1. New(c) /\ fault = "none"
    BY <1>3 DEF Construct, New
  <2> DEFINE sized == {s \in Slot : shape[s] = "sized"}
             zero == {s \in Slot : shape[s] = "zero"}
             contents == [s \in Slot |-> v]
  <2>2. Adopt(c, pool, NoArrays, sized, zero, contents, FALSE)
    BY <1>3 DEF Construct
  <2>3. sized \in SUBSET Slot /\ zero \in SUBSET Slot /\ \A s \in sized : contents[s] \in Content
    OBVIOUS
  <2> HIDE DEF sized, zero, contents
  <2>4. \A s \in sized \cup zero : NoArrays[s] = NoPtr
    BY <1>2, <2>3
  <2>. QED
    BY <1>1, <1>2, <2>1, <2>2, <2>3, <2>4, AdoptNewInv
<1>4. ASSUME NEW S \in SUBSET Slot, NEW parts \in [S -> Con], Wrap(c, parts)
      PROVE  Inv'
  <2> DEFINE Data(d) == CHOOSE p \in Pointer : Sized(p) /\ \E e \in ElementSlot : arrays[d][e] = p
             list == [s \in Slot |-> IF s \in DOMAIN parts THEN Data(parts[s]) ELSE NoPtr]
  <2>1. New(c) /\ fault = "none" /\ Adopt(c, pool, list, {}, {}, <<>>, FALSE)
    BY <1>4 DEF Wrap, New
  <2>2. \A s \in DOMAIN parts : \E p \in Pointer :
          Sized(p) /\ \E e \in ElementSlot : arrays[parts[s]][e] = p
    BY <1>4, ContainerAssumption DEF Wrap, Inv, TypeOK, Object
  <2>3. list \in [Slot -> Pointer]
    <3>1. \A s \in DOMAIN parts : Data(parts[s]) \in Pointer
      BY <2>2
    <3> HIDE DEF Data
    <3>. QED
      BY <3>1 DEF Pointer
  <2> HIDE DEF list
  <2>. QED
    BY <1>1, <2>1, <2>3, NothingAllocated, AdoptNewInv
<1>5. ASSUME NEW d \in Con, NEW inside \in {0, 1}, MakeRange(c, d, inside)
      PROVE  Inv'
  BY <1>5, MakeRangeInv
<1>6. ASSUME NEW d \in Con, MoveConstruct(c, d)
      PROVE  Inv'
  <2>1. /\ New(c) /\ Live(d) /\ Settled(d) /\ HandOver(d, c)
        /\ live' = live \cup {c} /\ UNCHANGED <<pool, heap, fault>>
    BY <1>6 DEF MoveConstruct
  <2>2. d \in Object /\ d \notin Layout /\ c # d /\ d \in live
    BY <2>1, ContainerAssumption DEF Object, New, Live
  <2>3. /\ ~foreign[c] /\ origin[c] = c /\ Settled(c) /\ pool' \in Pool
        /\ \A a \in Addr : pool'[a] = pool[a] - OwnCount(arrays, foreign, c, a)
    BY <1>1, <2>1, NewObject
  <2>4. heap' \in [Addr -> Content]
    BY <2>1 DEF Inv, TypeOK
  <2>. QED
    BY <1>1, <2>1, <2>2, <2>3, <2>4, HandOverInv
<1>7. ASSUME Destroy(c)
      PROVE  Inv'
  <2>1. CASE Discard(c) /\ live' = live \ {c}
    BY <1>1, <1>7, <2>1, DiscardInv DEF Destroy, Live
  <2>2. CASE Fail("throw")
    BY <2>2, FailInv
  <2>. QED
    BY <1>7, <2>1, <2>2 DEF Destroy
<1>. QED
  BY <1>3, <1>4, <1>5, <1>6, <1>7 DEF LifeOf

\* Operations of a live container.
LEMMA UseInv ==
  ASSUME Inv, Permit = {}, NEW c \in Con, UseOf(c)
  PROVE  Inv'
<1>1. c \in Object /\ c \notin Layout
  BY ContainerAssumption DEF Object
<1>2. /\ Release(pool, Owned(c)) \in Pool
      /\ \A a \in Addr :
           Release(pool, Owned(c))[a] = pool[a] - OwnCount(arrays, foreign, c, a)
  BY <1>1, ReleaseOwned
<1>3. \A d \in Con : arrays[d] \in [Slot -> Pointer]
  BY DEF Inv, TypeOK, Object
<1>4. \A call : ~(call \in Permit)
  OBVIOUS
<1>5. ASSUME Clear(c)
      PROVE  Inv'
  <2>1. CASE Discard(c) /\ UNCHANGED live
    BY <1>1, <1>5, <2>1, DiscardInv DEF Clear, Live
  <2>2. CASE Fail("throw")
    BY <2>2, FailInv
  <2>. QED
    BY <1>5, <2>1, <2>2 DEF Clear
<1>6. ASSUME NEW d \in Con, NEW mode \in CloneMode, Clone(c, d, mode)
      PROVE  Inv'
  <2>1. SharedSlots(mode) \in SUBSET Slot
    BY DEF SharedSlots, CloneMode, IndexSlot
  <2>2. CASE AdoptLike(c, Release(pool, Owned(c)), arrays[d],
                       SharedSlots(mode), CopiedSlots(mode), FALSE)
    <3>1. Settled(c) /\ fault = "none"
      BY <1>6 DEF Clone, Live
    <3>. QED
      BY <1>2, <1>3, <2>1, <2>2, <3>1, AdoptLikeInv
  <2>3. CASE Fail("throw")
    BY <2>3, FailInv
  <2>. QED
    BY <1>6, <2>2, <2>3 DEF Clone
<1>7. ASSUME NEW d \in Con, NEW mode \in CloneMode, CloneAcross(c, d, mode)
      PROVE  Inv'
  <2> DEFINE same == SameType(c, d)
             shared == SharedSlots(mode)
  <2>1. same \cap shared \in SUBSET Slot
    BY DEF SameType
  <2>2. \/ Fail("assert") \/ Fail("throw")
        \/ AdoptLike(c, Release(pool, Owned(c)), arrays[d], same \cap shared,
                     CopiedSlots(mode) \cup (shared \ same), FALSE)
    BY <1>7 DEF CloneAcross
  <2>3. Settled(c) /\ fault = "none"
    BY <1>7 DEF CloneAcross, Live
  <2> HIDE DEF same, shared
  <2>. QED
    BY <1>2, <1>3, <2>1, <2>2, <2>3, AdoptLikeInv, FailInv
<1>8. ASSUME NEW d \in Con, Assign(c, d)
      PROVE  Inv'
  <2>1. ~foreign[c] /\ c # d /\ Settled(c) /\ fault = "none"
    BY <1>4, <1>8 DEF Assign, Allowed, Live
  <2>2. Owned(c) = arrays[c] /\ foreign[c] = FALSE
    BY <1>1, <2>1, OwnerOrigin DEF Inv, TypeOK
  <2>3. CASE AdoptLike(c, Release(pool, Owned(c)), arrays[d], SameType(c, d), Slot, FALSE)
    <3>1. SameType(c, d) \in SUBSET Slot
      BY DEF SameType
    <3>. QED
      BY <1>2, <1>3, <2>1, <2>3, <3>1, AdoptLikeInv
  <2>4. CASE Fail("throw")
    BY <2>4, FailInv
  <2>. QED
    BY <1>8, <2>1, <2>2, <2>3, <2>4 DEF Assign
<1>9. ASSUME NEW d \in Con, Move(c, d)
      PROVE  Inv'
  <2>1. /\ ~foreign[c] /\ c # d /\ Settled(c) /\ Settled(d)
        /\ c \in live /\ d \in live /\ d \in Object /\ d \notin Layout
    BY <1>4, <1>9, ContainerAssumption DEF Move, Allowed, Live, Object
  <2>2. Owned(c) = arrays[c] /\ origin[c] = c
    BY <1>1, <2>1, OwnerOrigin
  <2>3. CASE /\ HandOver(d, c)
             /\ pool' = Release(pool, arrays[c])
             /\ heap' = HeapWith(pool', NoArrays, <<>>)
             /\ UNCHANGED <<live, fault>>
    <3>1. /\ pool' \in Pool
          /\ \A a \in Addr : pool'[a] = pool[a] - OwnCount(arrays, foreign, c, a)
      BY <1>2, <2>2, <2>3
    <3>2. heap' \in [Addr -> Content]
      <4>1. \A s \in Slot : \A a \in Addr : NoArrays[s] # Start(a)
        BY Starts DEF NoArrays, Sized
      <4>. QED
        BY <4>1, <2>3, HeapType DEF Inv, TypeOK
    <3>3. live' = live \cup {c} /\ fault' = fault
      BY <2>1, <2>3
    <3>. QED
      BY <1>1, <2>1, <2>2, <2>3, <3>1, <3>2, <3>3, HandOverInv
  <2>4. CASE Fail("throw")
    BY <2>4, FailInv
  <2>. QED
    BY <1>9, <2>3, <2>4 DEF Move
<1>10. ASSUME NEW v \in Val, Format(c, v)
       PROVE  Inv'
  <2>1. Overwrite(c, ElementSlot, [s \in Slot |-> v])
    BY <1>10 DEF Format
  <2>2. ElementSlot \in SUBSET Slot /\ [s \in Slot |-> v] \in [Slot -> Content]
    BY ContainerAssumption DEF Content
  <2>. QED
    BY <1>1, <2>1, <2>2, OverwriteInv
<1>11. ASSUME NEW d \in Con, NEW full \in BOOLEAN, CopyContent(c, d, full)
       PROVE  Inv'
  <2> DEFINE S == IF full THEN Slot ELSE ElementSlot
  <2>1. Overwrite(c, S, View(d)) /\ S \in SUBSET Slot
    BY <1>11, ContainerAssumption DEF CopyContent
  <2>2. View(d) \in [Slot -> Content]
    BY <1>3, AtType DEF View
  <2> HIDE DEF S
  <2>. QED
    BY <1>1, <2>1, <2>2, OverwriteInv
<1>. QED
  BY <1>5, <1>6, <1>7, <1>8, <1>9, <1>10, <1>11 DEF UseOf

\* Matrix layouts.
LEMMA LayoutInv ==
  ASSUME Inv, Permit = {}, NEW l \in Layout, LayoutStep(l)
  PROVE  Inv'
<1>1. l \in Object /\ ~foreign[l] /\ origin[l] = l /\ Owned(l) = arrays[l]
      /\ arrays[l] \in [Slot -> Pointer]
      /\ \A s \in ElementSlot : arrays[l][s] = NoPtr
  <2>1. l \in Object /\ ~foreign[l] /\ \A s \in ElementSlot : arrays[l][s] = NoPtr
    BY DEF Inv, LayoutsHoldIndices, Object
  <2>. QED
    BY <2>1, OwnerOrigin DEF Inv, TypeOK
<1>2. Settled(l)
  BY ContainerAssumption DEF Settled, Inv, RangesPointIntoOrigin
<1>3. ElementSlot \in SUBSET Slot /\ \A s \in ElementSlot : [t \in Slot |-> Undef][s] \in Content
  BY ContainerAssumption DEF Content
<1>4. ASSUME NewLayout(l)
      PROVE  Inv'
  <2>1. /\ live' = live \cup {l} /\ UNCHANGED <<arrays, foreign, origin, pool, heap, fault>>
    BY <1>4 DEF NewLayout
  <2>2. TypeOK' /\ RefCount'
    BY <1>1, <2>1 DEF Inv, TypeOK, RefCount, Owners
  <2>3. IdleObjects' /\ OwnersHoldStarts' /\ LayoutsHoldIndices'
    BY <2>1 DEF Inv, IdleObjects, OwnersHoldStarts, LayoutsHoldIndices
  <2>4. RangesPointIntoOrigin'
    BY <2>1 DEF Inv, RangesPointIntoOrigin, SizedIn
  <2>. QED
    BY <2>2, <2>3, <2>4 DEF Inv
<1>5. ASSUME DestroyLayout(l)
      PROVE  Inv'
  <2>1. CASE Discard(l) /\ live' = live \ {l}
    BY <1>1, <1>2, <1>5, <2>1, DiscardInv DEF DestroyLayout, Live
  <2>2. CASE Fail("throw")
    BY <2>2, FailInv
  <2>. QED
    BY <1>5, <2>1, <2>2 DEF DestroyLayout
<1>6. ASSUME NEW c \in Con, MakeLayout(l, c)
      PROVE  Inv'
  <2>1. New(l) /\ fault = "none" /\ Adopt(l, pool, Only(arrays[c], IndexSlot), {}, {}, <<>>, FALSE)
    BY <1>6 DEF MakeLayout, New
  <2>2. Only(arrays[c], IndexSlot) \in [Slot -> Pointer]
        /\ \A s \in ElementSlot : Only(arrays[c], IndexSlot)[s] = NoPtr
    BY ContainerAssumption DEF Only, Pointer, IndexSlot, Inv, TypeOK, Object
  <2>. QED
    BY <1>1, <2>1, <2>2, NothingAllocated, AdoptNewInv
<1>7. ASSUME NEW c \in Con, FromLayout(c, l)
      PROVE  Inv'
  <2> DEFINE contents == [s \in Slot |-> Undef]
  <2>1. /\ New(c) /\ c \in Object /\ c \notin Layout
        /\ Adopt(c, pool, arrays[l], ElementSlot, {}, contents, FALSE)
    BY <1>7, ContainerAssumption DEF FromLayout, New, Object
  <2>2. \A s \in ElementSlot : contents[s] \in Content
    BY <1>3
  <2> HIDE DEF contents
  <2>3. \A s \in ElementSlot \cup {} : arrays[l][s] = NoPtr
    BY <1>1
  <2>. QED
    BY <1>1, <1>3, <2>1, <2>2, <2>3, NothingAllocated, AdoptNewInv, ZenonT(30)
<1>8. ASSUME NEW c \in Con, AssignLayout(c, l)
      PROVE  Inv'
  <2>1. /\ c \in Object /\ c \notin Layout /\ ~foreign[c] /\ Settled(c) /\ fault = "none"
    BY <1>8, ContainerAssumption DEF AssignLayout, Live, Object
  <2>2. Owned(c) = arrays[c] /\ foreign[c] = FALSE
    BY <2>1, OwnerOrigin DEF Inv, TypeOK
  <2> DEFINE contents == [s \in Slot |-> Undef]
             rest == Release(pool, Owned(c))
  <2>3. CASE Adopt(c, rest, arrays[l], ElementSlot, {}, contents, FALSE)
    <3>1. /\ rest \in Pool
          /\ \A a \in Addr : rest[a] = pool[a] - OwnCount(arrays, foreign, c, a)
      BY <2>1, ReleaseOwned
    <3>2. \A s \in ElementSlot : contents[s] \in Content
      BY <1>3
    <3> HIDE DEF contents, rest
    <3>3. \A s \in ElementSlot \cup {} : arrays[l][s] = NoPtr
      BY <1>1
    <3>. QED
      BY <1>1, <1>3, <2>1, <2>3, <3>1, <3>2, <3>3, NothingAllocated, AdoptInv
  <2>4. CASE Fail("throw")
    BY <2>4, FailInv
  <2>. QED
    BY <1>8, <2>2, <2>3, <2>4 DEF AssignLayout
<1>9. ASSUME NEW k \in Layout, MoveConstructLayout(l, k) \/ MoveLayout(l, k)
      PROVE  Inv'
  <2>1. /\ k \in Object /\ k \in live /\ l # k /\ Settled(k)
    BY <1>9, ContainerAssumption
       DEF MoveConstructLayout, MoveLayout, New, Live, Object, Settled, Inv, RangesPointIntoOrigin
  <2>2. /\ HandOver(k, l) /\ UNCHANGED <<pool, heap, fault>> /\ live' = live \cup {l}
    BY <1>9 DEF MoveConstructLayout, MoveLayout, Live
  <2>3. arrays[l] = NoArrays
    BY <1>1, <1>9 DEF MoveConstructLayout, MoveLayout, Allowed, New, Inv, IdleObjects
  <2>4. pool' \in Pool /\ heap' \in [Addr -> Content]
        /\ \A a \in Addr : pool[a] \in Nat /\ OwnCount(arrays, foreign, l, a) = 0
    BY <2>2, <2>3, NoArraysOwnNothing DEF Inv, TypeOK, OwnCount, Pool
  <2>5. \A a \in Addr : pool'[a] = pool[a] - OwnCount(arrays, foreign, l, a)
    BY <2>2, <2>4
  <2>. QED
    BY <1>1, <1>2, <2>1, <2>2, <2>4, <2>5, HandOverInv
<1>. QED
  BY <1>4, <1>5, <1>6, <1>7, <1>8, <1>9 DEF LayoutStep

----------------------------------------------------------------------------
(* The theorems.                                                           *)

\* The invariant holds when the program starts: there are no objects.
LEMMA InitInv == Init => Inv
<1> SUFFICES ASSUME Init PROVE Inv
  OBVIOUS
<1>1. TypeOK
  BY DEF Init, TypeOK, NoArrays, Pointer, EmptyPool, Pool, Content
<1>2. RefCount
  <2>1. \A a \in Addr : Owners(a) = {}
    BY NoArraysOwnNothing DEF Init, Owners, SlotsAt
  <2>. QED
    BY <2>1, FS_EmptySet DEF Init, RefCount, EmptyPool
<1>3. IdleObjects /\ OwnersHoldStarts /\ RangesPointIntoOrigin /\ LayoutsHoldIndices
  BY ContainerAssumption
     DEF Init, IdleObjects, OwnersHoldStarts, RangesPointIntoOrigin, LayoutsHoldIndices, NoArrays, Object
<1>. QED
  BY <1>1, <1>2, <1>3 DEF Inv

\* Every step keeps it.
LEMMA NextInv == Permit = {} /\ Inv /\ [Next]_vars => Inv'
<1> SUFFICES ASSUME Permit = {}, Inv, [Next]_vars PROVE Inv'
  OBVIOUS
<1>1. CASE \E c \in Con : LifeOf(c) \/ UseOf(c)
  BY <1>1, LifeInv, UseInv
<1>2. CASE \E l \in Layout : LayoutStep(l)
  BY <1>2, LayoutInv
<1>3. CASE Finalise
  BY <1>3, FailInv DEF Finalise
<1>4. CASE UNCHANGED vars
  BY <1>4, UnchangedInv DEF vars, Inv, TypeOK
<1>. QED
  BY <1>1, <1>2, <1>3, <1>4 DEF Next

\* In a program without delicate calls the counter of every array is the number
\* of places that own a reference to it: no array is freed early or leaked.
THEOREM CountersAreExact == ASSUME Permit = {} PROVE Spec => []RefCount
<1>1. Inv => RefCount
  BY DEF Inv
<1>2. Permit = {}
  OBVIOUS
<1>. QED
  BY <1>1, <1>2, InitInv, NextInv, PTL DEF Spec

----------------------------------------------------------------------------
(* Live memory.                                                            *)

\* Whoever owns a reference is counted.
LEMMA OwnedIsPositive ==
  ASSUME Inv, NEW o \in Object, ~foreign[o], NEW s \in Slot, NEW a \in Addr,
         arrays[o][s] = Start(a)
  PROVE  InPool(pool, a)
<1>1. <<o, s>> \in OwnersIn(arrays, foreign, a)
  BY DEF OwnersIn
<1>2. /\ IsFiniteSet(OwnersIn(arrays, foreign, a))
      /\ pool[a] = Cardinality(OwnersIn(arrays, foreign, a))
  BY SplitOwners, RefCountIsBalanced DEF Inv, TypeOK, Balanced
<1>3. Cardinality(OwnersIn(arrays, foreign, a)) \in Nat
      /\ Cardinality(OwnersIn(arrays, foreign, a)) # 0
  BY <1>1, <1>2, FS_CardinalityType, FS_EmptySet
<1>. QED
  BY <1>2, <1>3 DEF InPool

\* The invariant keeps all pointers, also those of ranges, inside live arrays.
LEMMA InvLiveMemory == Inv => LiveMemory
<1> SUFFICES ASSUME Inv, NEW o \in Object, NEW s \in SizedIn(arrays[o])
             PROVE  InPool(pool, arrays[o][s][1])
  BY DEF LiveMemory
<1>1. s \in Slot /\ Sized(arrays[o][s]) /\ arrays[o][s] \in Pointer
  BY DEF SizedIn, Inv, TypeOK
<1>2. arrays[o][s][1] \in Addr
  BY <1>1, Starts
<1>3. CASE ~foreign[o]
  <2>1. \E a \in Addr : arrays[o][s] = Start(a)
    BY <1>1, <1>3 DEF Inv, OwnersHoldStarts, Sized
  <2>2. arrays[o][s] = Start(arrays[o][s][1])
    BY <2>1, Starts
  <2>. QED
    BY <1>1, <1>2, <1>3, <2>2, OwnedIsPositive
<1>4. CASE foreign[o]
  <2>1. origin[o] # o
    BY <1>1, <1>4 DEF Inv, RangesPointIntoOrigin, NoArrays, Sized
  <2>2. /\ ~foreign[origin[o]] /\ origin[o] \in Object
        /\ arrays[origin[o]][s] = Start(arrays[o][s][1])
    BY <2>1 DEF Inv, TypeOK, RangesPointIntoOrigin
  <2>. QED
    BY <1>1, <1>2, <2>2, OwnedIsPositive
<1>. QED
  BY <1>3, <1>4

\* In a program without delicate calls no container, layout or range holds a
\* pointer to memory that was given back.
THEOREM MemoryStaysLive == ASSUME Permit = {} PROVE Spec => []LiveMemory
<1>1. Permit = {}
  OBVIOUS
<1>. QED
  BY <1>1, InvLiveMemory, InitInv, NextInv, PTL DEF Spec

\* Such a program keeps all its variables in their types.
THEOREM TypeCorrect == ASSUME Permit = {} PROVE Spec => []TypeOK
<1>1. Inv => TypeOK
  BY DEF Inv
<1>2. Permit = {}
  OBVIOUS
<1>. QED
  BY <1>1, <1>2, InitInv, NextInv, PTL DEF Spec

----------------------------------------------------------------------------
(* No call ends the program.                                               *)

\* A program without delicate calls that constructs no array of zero size.
FullProgram == Permit = {} /\ \A shape \in Shapes : \A s \in Slot : shape[s] # "zero"

\* What an object answers for can be released.
LEMMA OwnedCanRelease ==
  ASSUME Inv, NEW o \in Object
  PROVE  CanRelease(pool, Owned(o))
<1> SUFFICES ASSUME NEW s \in Slot, Owned(o)[s] \notin {NoPtr, NullPtr}
             PROVE  \E a \in Addr : Owned(o)[s] = Start(a)
                                    /\ pool[a] >= Cardinality(SlotsAt(Owned(o), a))
  BY DEF CanRelease
<1>1. ~foreign[o] /\ Owned(o) = arrays[o]
  BY DEF Owned, NoArrays
<1>2. PICK a \in Addr : arrays[o][s] = Start(a)
  BY <1>1 DEF Inv, OwnersHoldStarts
<1>3. /\ Release(pool, Owned(o))[a] \in Nat
      /\ Release(pool, Owned(o))[a] = pool[a] - Cardinality(SlotsAt(Owned(o), a))
  BY ReleaseOwned DEF Release, Pool
<1>4. pool[a] \in Nat /\ Cardinality(SlotsAt(Owned(o), a)) \in Nat
  BY SlotsAtFinite DEF Inv, TypeOK, Pool
<1>. QED
  BY <1>1, <1>2, <1>3, <1>4

\* After one object has given back its arrays, those of another one are still
\* there to be shared.
LEMMA OthersCanIncrease ==
  ASSUME FaultFree, NEW c \in Object, NEW d \in Object, c # d, NEW S \in SUBSET Slot,
         foreign[d] => \A s \in S : arrays[d][s] = NoPtr
  PROVE  /\ CanIncrease(Release(pool, Owned(c)), Only(arrays[d], S))
         /\ CanIncrease(pool, Only(arrays[d], S))
<1> DEFINE n == Release(pool, Owned(c))
           m == Only(arrays[d], S)
<1>1. Inv /\ NoNullPointers
  BY DEF FaultFree
<1>2. ASSUME NEW s \in Slot, m[s] # NoPtr
      PROVE  \E a \in Addr : m[s] = Start(a) /\ InPool(n, a) /\ InPool(pool, a)
  <2>1. s \in S /\ m[s] = arrays[d][s] /\ ~foreign[d]
    BY <1>2 DEF Only
  <2>2. PICK a \in Addr : arrays[d][s] = Start(a)
    BY <1>1, <1>2, <2>1 DEF Inv, OwnersHoldStarts, NoNullPointers
  <2>3. <<d, s>> \in OwnersBut(arrays, foreign, c, a)
    BY <2>1, <2>2 DEF OwnersBut, OwnersIn
  <2>4. /\ IsFiniteSet(OwnersBut(arrays, foreign, c, a))
        /\ pool[a] = Cardinality(OwnersBut(arrays, foreign, c, a)) + OwnCount(arrays, foreign, c, a)
    BY <1>1, SplitOwners, RefCountIsBalanced DEF Inv, TypeOK, Balanced
  <2>5. /\ Cardinality(OwnersBut(arrays, foreign, c, a)) \in Nat
        /\ Cardinality(OwnersBut(arrays, foreign, c, a)) # 0
    BY <2>3, <2>4, FS_CardinalityType, FS_EmptySet
  <2>6. OwnCount(arrays, foreign, c, a) \in Nat /\ n[a] = pool[a] - OwnCount(arrays, foreign, c, a)
    BY <1>1, ReleaseOwned, SlotsAtFinite DEF OwnCount
  <2>7. InPool(n, a) /\ InPool(pool, a)
    <3> HIDE DEF n
    <3>. QED
      BY <2>4, <2>5, <2>6 DEF InPool
  <2>. QED
    BY <2>1, <2>2, <2>7
<1> HIDE DEF n, m
<1>3. CanIncrease(n, m) /\ CanIncrease(pool, m)
  BY <1>2 DEF CanIncrease
<1>. QED
  BY <1>3 DEF n, m

\* Sharing arrays that are there and allocating others does not fail.
LEMMA AdoptFaultFree ==
  ASSUME FaultFree, Inv', NEW o \in Object, NEW n, NEW shared, NEW sized \in SUBSET Slot, NEW contents,
         CanIncrease(n, shared), \A s \in Slot : shared[s] # NullPtr,
         Adopt(o, n, shared, sized, {}, contents, FALSE)
  PROVE  FaultFree'
<1> DEFINE M(own) == [s \in Slot |-> IF shared[s] = NoPtr THEN own[s] ELSE shared[s]]
<1>1. PICK own \in Allocations(n, sized, {}) :
        /\ arrays' = [arrays EXCEPT ![o] = M(own)]
        /\ foreign' = [foreign EXCEPT ![o] = FALSE]
        /\ fault' = fault
  BY DEF Adopt, AssertsOnIncrease
<1>2. \A s \in Slot : own[s] # NullPtr
  <2> DEFINE none == {}
  <2>1. own \in Allocations(n, sized, none) /\ none \in SUBSET Slot
    BY <1>1
  <2>2. \A s \in Slot \ sized : s \in Slot \ (sized \cup none)
    OBVIOUS
  <2> HIDE DEF none
  <2>3. /\ own \in [Slot -> Pointer]
        /\ \A s \in sized : \E a \in Addr : own[s] = Start(a)
        /\ \A s \in Slot \ sized : own[s] \in {NullPtr, NoPtr}
        /\ \A s \in Slot \ (sized \cup none) : own[s] = NoPtr
    BY <2>1, AllocationsType
  <2>. QED
    BY <2>2, <2>3, Starts, PointerAssumption DEF Sized
<1>3. \A s \in Slot : M(own)[s] # NullPtr
  BY <1>2
<1>4. /\ arrays'[o] = M(own) /\ ~foreign'[o]
      /\ \A p \in Object \ {o} : arrays'[p] = arrays[p] /\ foreign'[p] = foreign[p]
  BY <1>1 DEF FaultFree, Inv, TypeOK
<1> HIDE DEF M
<1>5. NoNullPointers'
  BY <1>3, <1>4 DEF FaultFree, NoNullPointers
<1>6. RangesHoldNoIndices'
  BY <1>4 DEF FaultFree, RangesHoldNoIndices
<1>7. NoFault'
  BY <1>1 DEF FaultFree, NoFault
<1>. QED
  BY <1>5, <1>6, <1>7 DEF FaultFree

\* A step that leaves the objects alone.
LEMMA UnchangedFaultFree ==
  ASSUME FaultFree, Inv', UNCHANGED <<arrays, foreign>>, fault' \in {"none", "done"}
  PROVE  FaultFree'
BY DEF FaultFree, NoNullPointers, RangesHoldNoIndices, NoFault

\* Arrays that change hands or go.
LEMMA HandOverFaultFree ==
  ASSUME FaultFree, Inv', NEW p \in Object, NEW o \in Object, o # p, HandOver(p, o),
         fault' = fault
  PROVE  FaultFree'
<1>1. /\ arrays' = [arrays EXCEPT ![o] = arrays[p], ![p] = NoArrays]
      /\ foreign' = [foreign EXCEPT ![o] = foreign[p]]
  BY DEF HandOver
<1>2. \A s \in Slot : NoArrays[s] = NoPtr
  BY DEF NoArrays
<1>3. /\ arrays'[o] = arrays[p] /\ arrays'[p] = NoArrays /\ foreign'[o] = foreign[p]
      /\ \A q \in Object \ {o, p} : arrays'[q] = arrays[q] /\ foreign'[q] = foreign[q]
  BY <1>1 DEF FaultFree, Inv, TypeOK
<1>4. NoNullPointers'
  BY <1>2, <1>3, PointerAssumption DEF FaultFree, NoNullPointers
<1>5. RangesHoldNoIndices'
  BY <1>2, <1>3 DEF FaultFree, RangesHoldNoIndices, IndexSlot
<1>. QED
  BY <1>4, <1>5 DEF FaultFree, NoFault

LEMMA DiscardFaultFree ==
  ASSUME FaultFree, Inv', NEW o \in Object, Discard(o)
  PROVE  FaultFree'
<1>1. /\ arrays' = [arrays EXCEPT ![o] = NoArrays] /\ foreign' = [foreign EXCEPT ![o] = FALSE]
      /\ fault' = fault
  BY DEF Discard
<1>2. \A s \in Slot : NoArrays[s] = NoPtr
  BY DEF NoArrays
<1>3. /\ arrays'[o] = NoArrays /\ ~foreign'[o]
      /\ \A q \in Object \ {o} : arrays'[q] = arrays[q] /\ foreign'[q] = foreign[q]
  BY <1>1 DEF FaultFree, Inv, TypeOK
<1>4. NoNullPointers'
  BY <1>2, <1>3, PointerAssumption DEF FaultFree, NoNullPointers
<1>5. RangesHoldNoIndices'
  BY <1>3 DEF FaultFree, RangesHoldNoIndices
<1>. QED
  BY <1>1, <1>4, <1>5 DEF FaultFree, NoFault

\* An object takes another one's arrays or copies of them for its own.
LEMMA AdoptLikeFaultFree ==
  ASSUME FaultFree, Inv', NEW c \in Con, NEW d \in Con, c # d,
         NEW share \in SUBSET Slot, NEW copy,
         foreign[d] => \A s \in share : arrays[d][s] = NoPtr,
         AdoptLike(c, Release(pool, Owned(c)), arrays[d], share, copy, FALSE)
  PROVE  FaultFree'
<1> DEFINE n == Release(pool, Owned(c))
           contents == [s \in Slot |-> IF s \in copy THEN At(n, arrays[d][s]) ELSE Undef]
           shared == Only(arrays[d], share)
           sized == SizedIn(arrays[d]) \ share
<1>1. c \in Object /\ d \in Object
  BY DEF Object
<1>2. ZeroIn(arrays[d]) \ share = {}
  BY <1>1 DEF FaultFree, NoNullPointers, ZeroIn
<1>3. Adopt(c, n, shared, sized, {}, contents, FALSE)
  BY <1>2 DEF AdoptLike
<1>4. CanIncrease(n, shared)
  BY <1>1, OthersCanIncrease
<1>5. \A s \in Slot : shared[s] # NullPtr
  BY <1>1, PointerAssumption DEF FaultFree, NoNullPointers, Only
<1>6. sized \in SUBSET Slot
  BY DEF SizedIn
<1> HIDE DEF n, contents, shared, sized
<1>. QED
  BY <1>1, <1>3, <1>4, <1>5, <1>6, AdoptFaultFree

\* A range has no null pointer, as its vector has none.
LEMMA MakeRangeFaultFree ==
  ASSUME FaultFree, Inv', NEW c \in Con, NEW d \in Con, NEW inside \in {0, 1},
         MakeRange(c, d, inside)
  PROVE  FaultFree'
<1> DEFINE Shift(p) == IF inside = 0 THEN p ELSE Inside(p[1])
           m == [s \in Slot |-> IF s \in ElementSlot THEN Shift(arrays[d][s]) ELSE NoPtr]
<1>1. /\ arrays' = [arrays EXCEPT ![c] = m] /\ foreign' = [foreign EXCEPT ![c] = TRUE]
      /\ fault' = fault /\ SizedIn(arrays[d]) = ElementSlot
  BY DEF MakeRange
<1>2. c \in Object /\ d \in Object
  BY DEF Object
<1>3. \A s \in ElementSlot : m[s] # NullPtr
  <2>1. \A s \in ElementSlot : arrays[d][s] \in Addr \X {0, 1}
    BY <1>1, <1>2, Starts DEF FaultFree, Inv, TypeOK, SizedIn
  <2>2. \A p \in Addr \X {0, 1} : Shift(p) \in Addr \X {0, 1}
    BY DEF Inside
  <2>3. \A s \in ElementSlot : m[s] = Shift(arrays[d][s])
    BY ContainerAssumption
  <2> HIDE DEF Shift, m
  <2>. QED
    BY <2>1, <2>2, <2>3, PointerAssumption
<1>4. \A s \in IndexSlot : m[s] = NoPtr
  BY DEF IndexSlot
<1> HIDE DEF m
<1>5. /\ arrays'[c] = m
      /\ \A q \in Object \ {c} : arrays'[q] = arrays[q] /\ foreign'[q] = foreign[q]
  BY <1>1, <1>2 DEF FaultFree, Inv, TypeOK
<1>6. NoNullPointers'
  BY <1>3, <1>4, <1>5, PointerAssumption DEF FaultFree, NoNullPointers, IndexSlot
<1>7. RangesHoldNoIndices'
  BY <1>4, <1>5 DEF FaultFree, RangesHoldNoIndices
<1>. QED
  BY <1>1, <1>6, <1>7 DEF FaultFree, NoFault

\* Constructors and the destructor do not fail.
LEMMA LifeFaultFree ==
  ASSUME FullProgram, FaultFree, Inv', NEW c \in Con, LifeOf(c)
  PROVE  FaultFree'
<1>1. c \in Object /\ Inv
  BY DEF Object, FaultFree
<1>2. /\ {} \in SUBSET Slot
      /\ \A s \in Slot : NoArrays[s] = NoPtr /\ NoArrays[s] # NullPtr
  BY PointerAssumption DEF NoArrays
<1>3. ASSUME NEW shape \in Shapes, NEW v \in Content, Construct(c, shape, v)
      PROVE  FaultFree'
  <2> DEFINE sized == {s \in Slot : shape[s] = "sized"}
             contents == [s \in Slot |-> v]
  <2>1. {s \in Slot : shape[s] = "zero"} = {}
    BY DEF FullProgram
  <2>2. Adopt(c, pool, NoArrays, sized, {}, contents, FALSE)
    BY <1>3, <2>1 DEF Construct
  <2>3. sized \in SUBSET Slot
    OBVIOUS
  <2>4. CanIncrease(pool, NoArrays)
    BY <1>2 DEF CanIncrease
  <2> HIDE DEF sized, contents
  <2>. QED
    BY <1>1, <1>2, <2>2, <2>3, <2>4, AdoptFaultFree
<1>4. ASSUME NEW S \in SUBSET Slot, NEW parts \in [S -> Con], Wrap(c, parts)
      PROVE  FaultFree'
  <2> DEFINE Data(d) == CHOOSE p \in Pointer : Sized(p) /\ \E e \in ElementSlot : arrays[d][e] = p
             list == [s \in Slot |-> IF s \in DOMAIN parts THEN Data(parts[s]) ELSE NoPtr]
  <2>1. Adopt(c, pool, list, {}, {}, <<>>, FALSE)
    BY <1>4 DEF Wrap
  <2>2. ASSUME NEW s \in DOMAIN parts
        PROVE  Sized(Data(parts[s])) /\ \E a \in Addr : Data(parts[s]) = Start(a) /\ InPool(pool, a)
    <3>1. parts[s] \in Object /\ ~foreign[parts[s]]
      BY <1>4, <2>2 DEF Wrap, Object
    <3>2. \E p \in Pointer : Sized(p) /\ \E e \in ElementSlot : arrays[parts[s]][e] = p
      BY <1>1, <1>4, <2>2, <3>1, ContainerAssumption DEF Wrap, Inv, TypeOK
    <3>3. Sized(Data(parts[s])) /\ \E e \in ElementSlot : arrays[parts[s]][e] = Data(parts[s])
      BY <3>2
    <3> HIDE DEF Data
    <3>4. PICK e \in ElementSlot : arrays[parts[s]][e] = Data(parts[s])
      BY <3>3
    <3>5. e \in Slot
      BY <3>4, ContainerAssumption
    <3>6. PICK a \in Addr : arrays[parts[s]][e] = Start(a)
      BY <1>1, <3>1, <3>3, <3>4, <3>5 DEF Inv, OwnersHoldStarts, Sized
    <3>7. InPool(pool, a)
      BY <1>1, <3>1, <3>5, <3>6, OwnedIsPositive
    <3>. QED
      BY <3>3, <3>4, <3>6, <3>7
  <2> HIDE DEF Data
  <2>3. CanIncrease(pool, list)
    BY <2>2 DEF CanIncrease
  <2>4. \A s \in Slot : list[s] # NullPtr
    BY <2>2, PointerAssumption DEF Sized
  <2> HIDE DEF list
  <2>. QED
    BY <1>1, <1>2, <2>1, <2>3, <2>4, AdoptFaultFree
<1>5. ASSUME NEW d \in Con, NEW inside \in {0, 1}, MakeRange(c, d, inside)
      PROVE  FaultFree'
  BY <1>5, MakeRangeFaultFree
<1>6. ASSUME NEW d \in Con, MoveConstruct(c, d)
      PROVE  FaultFree'
  <2>1. d \in Object /\ d # c /\ HandOver(d, c) /\ fault' = fault
    BY <1>6 DEF MoveConstruct, New, Live, Object
  <2>. QED
    BY <1>1, <2>1, HandOverFaultFree
<1>7. ASSUME Destroy(c)
      PROVE  FaultFree'
  <2>1. Discard(c)
    BY <1>1, <1>7, OwnedCanRelease DEF Destroy
  <2>. QED
    BY <1>1, <2>1, DiscardFaultFree
<1>. QED
  BY <1>3, <1>4, <1>5, <1>6, <1>7 DEF LifeOf

\* Operations of a live container do not fail.
LEMMA UseFaultFree ==
  ASSUME Permit = {}, FaultFree, Inv', NEW c \in Con, UseOf(c)
  PROVE  FaultFree'
<1>1. c \in Object /\ Inv /\ CanRelease(pool, Owned(c))
  BY OwnedCanRelease DEF Object, FaultFree
<1>2. \A call : ~(call \in Permit)
  OBVIOUS
<1>3. \A d \in Con : foreign[d] => \A s \in IndexSlot : arrays[d][s] = NoPtr
  BY DEF FaultFree, RangesHoldNoIndices, Object
<1>4. \A d \in Con : \A S : \A s \in Slot : Only(arrays[d], S)[s] # NullPtr
  BY PointerAssumption DEF FaultFree, NoNullPointers, Only, Object
<1>5. CASE Clear(c)
  <2>1. Discard(c)
    BY <1>1, <1>5 DEF Clear
  <2>. QED
    BY <1>1, <2>1, DiscardFaultFree
<1>6. ASSUME NEW d \in Con, NEW mode \in CloneMode, Clone(c, d, mode)
      PROVE  FaultFree'
  <2>1. SharedSlots(mode) \in SUBSET Slot
    BY DEF SharedSlots, CloneMode, IndexSlot
  <2>2. foreign[d] => SharedSlots(mode) = {}
    BY <1>6 DEF Clone, SharedSlots
  <2>3. c # d /\ AdoptLike(c, Release(pool, Owned(c)), arrays[d],
                           SharedSlots(mode), CopiedSlots(mode), FALSE)
    BY <1>1, <1>6 DEF Clone
  <2>. QED
    BY <2>1, <2>2, <2>3, AdoptLikeFaultFree
<1>7. ASSUME NEW d \in Con, NEW mode \in CloneMode, CloneAcross(c, d, mode)
      PROVE  FaultFree'
  <2> DEFINE same == SameType(c, d)
             shared == SharedSlots(mode)
  <2>1. same \in SUBSET Slot /\ same \cap shared \in SUBSET Slot
    BY DEF SameType
  <2>2. c # d
    BY <1>7 DEF CloneAcross, SameClass, SameType
  <2>3. foreign[d] => \A s \in same : arrays[d][s] = NoPtr
    <3>1. foreign[d] => DataType[c] # DataType[d]
      BY <1>2, <1>7 DEF CloneAcross, Allowed
    <3>. QED
      BY <1>3, <3>1 DEF SameType, IndexSlot
  <2>4. CanIncrease(pool, Only(arrays[d], same))
    <3> HIDE DEF same
    <3>1. d \in Object
      BY DEF Object
    <3>. QED
      BY <1>1, <2>1, <2>2, <2>3, <3>1, OthersCanIncrease
  <2>5. ~AssertsOnIncrease(Only(arrays[d], same \cup shared))
    BY <1>4 DEF AssertsOnIncrease
  <2>6. AdoptLike(c, Release(pool, Owned(c)), arrays[d], same \cap shared,
                  CopiedSlots(mode) \cup (shared \ same), FALSE)
    BY <1>1, <1>7, <2>4, <2>5 DEF CloneAcross
  <2>7. foreign[d] => \A s \in same \cap shared : arrays[d][s] = NoPtr
    BY <2>3
  <2> HIDE DEF same, shared
  <2>. QED
    BY <2>1, <2>2, <2>6, <2>7, AdoptLikeFaultFree
<1>8. ASSUME NEW d \in Con, Assign(c, d)
      PROVE  FaultFree'
  <2>1. ~foreign[c] /\ c # d
    BY <1>2, <1>8 DEF Assign, Allowed
  <2>2. Owned(c) = arrays[c] /\ foreign[c] = FALSE
    BY <1>1, <2>1, OwnerOrigin DEF Inv, TypeOK
  <2>3. AdoptLike(c, Release(pool, Owned(c)), arrays[d], SameType(c, d), Slot, FALSE)
    BY <1>1, <1>8, <2>1, <2>2 DEF Assign
  <2>4. SameType(c, d) \in SUBSET Slot
    BY DEF SameType
  <2>5. foreign[d] => \A s \in SameType(c, d) : arrays[d][s] = NoPtr
    <3>1. foreign[d] => DataType[c] # DataType[d]
      BY <1>2, <1>8 DEF Assign, Allowed
    <3>. QED
      BY <1>3, <3>1 DEF SameType, IndexSlot
  <2>. QED
    BY <2>1, <2>3, <2>4, <2>5, AdoptLikeFaultFree
<1>9. ASSUME NEW d \in Con, Move(c, d)
      PROVE  FaultFree'
  <2>1. ~foreign[c] /\ c # d /\ d \in Object
    BY <1>2, <1>9 DEF Move, Allowed, Object
  <2>2. Owned(c) = arrays[c]
    BY <1>1, <2>1, OwnerOrigin
  <2>3. HandOver(d, c) /\ fault' = fault
    BY <1>1, <1>9, <2>2 DEF Move
  <2>. QED
    BY <1>1, <2>1, <2>3, HandOverFaultFree
<1>10. ASSUME NEW S, NEW contents, Overwrite(c, S, contents)
       PROVE  FaultFree'
  BY <1>10, UnchangedFaultFree DEF Overwrite, FaultFree, NoFault
<1>11. ASSUME NEW v \in Val, Format(c, v)
       PROVE  FaultFree'
  <2>1. Overwrite(c, ElementSlot, [s \in Slot |-> v])
    BY <1>11 DEF Format
  <2>. QED
    BY <1>10, <2>1
<1>12. ASSUME NEW d \in Con, NEW full \in BOOLEAN, CopyContent(c, d, full)
       PROVE  FaultFree'
  <2>1. Overwrite(c, IF full THEN Slot ELSE ElementSlot, View(d))
    BY <1>12 DEF CopyContent
  <2>. QED
    BY <1>10, <2>1
<1>. QED
  BY <1>5, <1>6, <1>7, <1>8, <1>9, <1>11, <1>12 DEF UseOf

\* Nor do those of layouts.
LEMMA LayoutFaultFree ==
  ASSUME Permit = {}, FaultFree, Inv', NEW l \in Layout, LayoutStep(l)
  PROVE  FaultFree'
<1>1. l \in Object /\ Inv /\ ~foreign[l] /\ Owned(l) = arrays[l]
  <2>1. l \in Object /\ Inv /\ ~foreign[l]
    BY DEF FaultFree, Inv, LayoutsHoldIndices, Object
  <2>. QED
    BY <2>1, OwnerOrigin
<1>2. {} \in SUBSET Slot /\ ElementSlot \in SUBSET Slot
  BY ContainerAssumption
<1>3. \A o \in Object : \A S : \A s \in Slot : Only(arrays[o], S)[s] # NullPtr
  BY PointerAssumption DEF FaultFree, NoNullPointers, Only
<1>4. /\ Only(arrays[l], Slot) = arrays[l]
      /\ \A s \in Slot : arrays[l][s] # NullPtr
  <2>1. arrays[l] = [s \in Slot |-> arrays[l][s]]
    BY <1>1 DEF Inv, TypeOK
  <2>. QED
    BY <1>1, <2>1 DEF Only, FaultFree, NoNullPointers
<1>5. CASE NewLayout(l)
  BY <1>5, UnchangedFaultFree DEF NewLayout, FaultFree, NoFault
<1>6. CASE DestroyLayout(l)
  <2>1. Discard(l)
    BY <1>1, <1>6, OwnedCanRelease DEF DestroyLayout
  <2>. QED
    BY <1>1, <2>1, DiscardFaultFree
<1>7. ASSUME NEW c \in Con, MakeLayout(l, c)
      PROVE  FaultFree'
  <2> DEFINE shared == Only(arrays[c], IndexSlot)
  <2>1. c \in Object /\ c # l /\ ~foreign[c] /\ IndexSlot \in SUBSET Slot
        /\ Adopt(l, pool, shared, {}, {}, <<>>, FALSE)
    BY <1>7, ContainerAssumption DEF MakeLayout, Object, IndexSlot
  <2>2. CanIncrease(pool, shared)
    BY <1>1, <2>1, OthersCanIncrease
  <2>3. \A s \in Slot : shared[s] # NullPtr
    BY <1>3, <2>1
  <2> HIDE DEF shared
  <2>. QED
    BY <1>1, <1>2, <2>1, <2>2, <2>3, AdoptFaultFree
<1>8. ASSUME NEW c \in Con, FromLayout(c, l)
      PROVE  FaultFree'
  <2> DEFINE contents == [s \in Slot |-> Undef]
  <2>1. c \in Object /\ c # l /\ Adopt(c, pool, arrays[l], ElementSlot, {}, contents, FALSE)
    BY <1>8, ContainerAssumption DEF FromLayout, Object
  <2>2. CanIncrease(pool, arrays[l])
    <3>1. Slot \in SUBSET Slot
      OBVIOUS
    <3>2. CanIncrease(pool, Only(arrays[l], Slot))
      BY <1>1, <2>1, <3>1, OthersCanIncrease
    <3>. QED
      BY <1>4, <3>2
  <2> HIDE DEF contents
  <2>. QED
    BY <1>2, <1>4, <2>1, <2>2, AdoptFaultFree
<1>9. ASSUME NEW c \in Con, AssignLayout(c, l)
      PROVE  FaultFree'
  <2> DEFINE contents == [s \in Slot |-> Undef]
             rest == Release(pool, Owned(c))
  <2>1. c \in Object /\ c # l /\ ~foreign[c]
    BY <1>9, ContainerAssumption DEF AssignLayout, Object
  <2>2. Owned(c) = arrays[c] /\ foreign[c] = FALSE /\ CanRelease(pool, Owned(c))
    BY <1>1, <2>1, OwnerOrigin, OwnedCanRelease DEF Inv, TypeOK
  <2>3. Adopt(c, rest, arrays[l], ElementSlot, {}, contents, FALSE)
    BY <1>9, <2>2 DEF AssignLayout
  <2>4. CanIncrease(rest, arrays[l])
    <3>1. Slot \in SUBSET Slot
      OBVIOUS
    <3>2. CanIncrease(rest, Only(arrays[l], Slot))
      BY <1>1, <2>1, <3>1, OthersCanIncrease
    <3> HIDE DEF rest
    <3>. QED
      BY <1>4, <3>2
  <2> HIDE DEF contents, rest
  <2>. QED
    BY <1>2, <1>4, <2>1, <2>3, <2>4, AdoptFaultFree
<1>10. ASSUME NEW k \in Layout, MoveConstructLayout(l, k) \/ MoveLayout(l, k)
       PROVE  FaultFree'
  <2>1. k \in Object /\ l # k /\ HandOver(k, l) /\ fault' = fault
    BY <1>10 DEF MoveConstructLayout, MoveLayout, New, Live, Object
  <2>. QED
    BY <1>1, <2>1, HandOverFaultFree
<1>. QED
  BY <1>5, <1>6, <1>7, <1>8, <1>9, <1>10 DEF LayoutStep

\* When all objects are gone, so are all arrays.
LEMMA FinaliseFaultFree ==
  ASSUME FaultFree, Inv', Finalise
  PROVE  FaultFree'
<1>1. ASSUME NEW a \in Addr
      PROVE  ~InPool(pool, a)
  <2>1. \A o \in Object : arrays[o] = NoArrays
    BY DEF Finalise, FaultFree, Inv, IdleObjects
  <2>2. Owners(a) = {}
    BY <2>1, NoArraysOwnNothing DEF Owners, SlotsAt
  <2>3. pool[a] = 0
    BY <2>2, FS_EmptySet DEF FaultFree, Inv, RefCount
  <2>. QED
    BY <2>3 DEF InPool
<1>2. Fail("done")
  BY <1>1 DEF Finalise
<1>. QED
  BY <1>2, UnchangedFaultFree DEF Fail

\* In a program that makes no delicate call and constructs no array of zero size,
\* counters are exact, no container has a null pointer, ranges share no index
\* arrays, and there is no fault: this is what its operations preserve.
THEOREM ArraysAreFaultFree == ASSUME FullProgram PROVE Spec => []FaultFree
<1>1. Permit = {} /\ FullProgram
  BY DEF FullProgram
<1>2. Init => FaultFree
  BY InitInv, PointerAssumption
     DEF Init, FaultFree, NoNullPointers, RangesHoldNoIndices, NoFault, NoArrays
<1>3. FaultFree /\ [Next]_vars => FaultFree'
  <2> SUFFICES ASSUME FaultFree, [Next]_vars PROVE FaultFree'
    OBVIOUS
  <2>1. Inv'
    BY <1>1, NextInv DEF FaultFree
  <2>2. CASE \E c \in Con : LifeOf(c) \/ UseOf(c)
    BY <1>1, <2>1, <2>2, LifeFaultFree, UseFaultFree
  <2>3. CASE \E l \in Layout : LayoutStep(l)
    BY <1>1, <2>1, <2>3, LayoutFaultFree
  <2>4. CASE Finalise
    BY <2>1, <2>4, FinaliseFaultFree
  <2>5. CASE UNCHANGED vars
    BY <2>1, <2>5, UnchangedFaultFree DEF vars, FaultFree, NoFault
  <2>. QED
    BY <2>2, <2>3, <2>4, <2>5 DEF Next
<1>. QED
  BY <1>2, <1>3, PTL DEF Spec

\* No sequence of calls of such a program ends in a failed assertion, an exception
\* of the memory pool or memory left over at the end.
THEOREM ProgramsDoNotFail == ASSUME FullProgram PROVE Spec => []NoFault
<1>1. FullProgram /\ (FaultFree => NoFault)
  BY DEF FaultFree
<1>. QED
  BY <1>1, ArraysAreFaultFree, PTL

----------------------------------------------------------------------------
(* Containers share garbage-collected cells.                               *)

\* The cell an object refers to, and the mapping that Cells substitutes.
CellAt(arr, o, s) == IF Sized(arr[o][s]) THEN arr[o][s][1] ELSE NoPtr

\* The three steps of the abstract specification, in terms of arrays and heap.
LEMMA RebindStep ==
  ASSUME NEW o \in Object,
         \A s \in Slot : CellAt(arrays', o, s) \in Addr \cup {NoPtr},
         \A p \in Object \ {o} : arrays'[p] = arrays[p],
         \A s, t \in Slot :
           /\ CellAt(arrays', o, s) = CellAt(arrays', o, t)
           /\ CellAt(arrays', o, s) # NoPtr
           /\ s # t
           => \E p \in Object : \E u \in Slot : CellAt(arrays', o, s) = CellAt(arrays, p, u),
         heap' \in [Addr -> Content],
         \A p \in Object \ {o} : \A s \in Slot :
           CellAt(arrays, p, s) # NoPtr => heap'[CellAt(arrays, p, s)] = heap[CellAt(arrays, p, s)]
  PROVE  Cells!Rebind(o)
<1> DEFINE ref == [q \in Object |-> [s \in Slot |-> CellAt(arrays, q, s)]]
           ref2 == [q \in Object |-> [s \in Slot |-> CellAt(arrays', q, s)]]
           m == [s \in Slot |-> CellAt(arrays', o, s)]
<1>1. m \in [Slot -> Addr \cup {NoPtr}]
  OBVIOUS
<1>2. ref2 = [ref EXCEPT ![o] = m]
  BY DEF CellAt
<1>3. \A s, t \in Slot :
        m[s] = m[t] /\ m[s] # NoPtr /\ s # t
          => m[s] \in UNION {{ref[p][u] : u \in Slot} \ {NoPtr} : p \in Object}
  <2> SUFFICES ASSUME NEW s \in Slot, NEW t \in Slot, m[s] = m[t], m[s] # NoPtr, s # t
               PROVE  m[s] \in UNION {{ref[p][u] : u \in Slot} \ {NoPtr} : p \in Object}
    OBVIOUS
  <2>1. PICK p \in Object, u \in Slot : m[s] = CellAt(arrays, p, u)
    OBVIOUS
  <2>2. m[s] \in {ref[p][v] : v \in Slot} \ {NoPtr}
    BY <2>1
  <2> QED
    BY <2>2
<1>4. \A c \in UNION {{ref[p][u] : u \in Slot} \ {NoPtr} : p \in Object \ {o}} :
        heap'[c] = heap[c]
  OBVIOUS
<1> HIDE DEF m
<1> QED
  BY <1>1, <1>2, <1>3, <1>4
     DEF Cells!Rebind, Cells!Referenced, Cells!ReferencedBut, Cells!CellsOf, CellAt

LEMMA WriteStep ==
  ASSUME NEW o \in Object, UNCHANGED arrays, heap' \in [Addr -> Content],
         \A a \in Addr :
           heap'[a] = heap[a] \/ \E s \in Slot : Sized(arrays[o][s]) /\ arrays[o][s][1] = a,
         \A p \in Object : \A s \in SizedIn(arrays[p]) : arrays[p][s][1] \in Addr
  PROVE  Cells!Write(o)
<1>1. ASSUME NEW p \in Object, NEW s \in Slot, CellAt(arrays, p, s) # NoPtr,
             \A t \in Slot : CellAt(arrays, o, t) # CellAt(arrays, p, s)
      PROVE  heap'[CellAt(arrays, p, s)] = heap[CellAt(arrays, p, s)]
  <2>1. s \in SizedIn(arrays[p]) /\ CellAt(arrays, p, s) = arrays[p][s][1]
    BY <1>1 DEF CellAt, SizedIn
  <2> QED
    BY <1>1, <2>1 DEF CellAt
<1> QED
  BY <1>1 DEF Cells!Write, Cells!Referenced, Cells!CellsOf, CellAt

LEMMA TakeStep ==
  ASSUME NEW o \in Object, NEW p \in Object, o # p,
         arrays \in [Object -> [Slot -> Pointer]],
         arrays' = [arrays EXCEPT ![o] = arrays[p], ![p] = NoArrays],
         heap' \in [Addr -> Content],
         \A q \in Object : \A s \in SizedIn(arrays'[q]) :
           heap'[arrays'[q][s][1]] = heap[arrays'[q][s][1]]
  PROVE  Cells!Take(o, p)
<1> DEFINE ref == [q \in Object |-> [s \in Slot |-> CellAt(arrays, q, s)]]
           ref2 == [q \in Object |-> [s \in Slot |-> CellAt(arrays', q, s)]]
<1>1. /\ arrays'[o] = arrays[p] /\ arrays'[p] = NoArrays
      /\ \A q \in Object \ {o, p} : arrays'[q] = arrays[q]
  OBVIOUS
<1>2. \A s \in Slot : CellAt(arrays', p, s) = NoPtr
  BY <1>1 DEF CellAt, NoArrays, Sized
<1>3. ref2 = [ref EXCEPT ![o] = ref[p], ![p] = [s \in Slot |-> NoPtr]]
  BY <1>1, <1>2 DEF CellAt
<1>4. \A q \in Object : \A s \in Slot :
        CellAt(arrays', q, s) # NoPtr => heap'[CellAt(arrays', q, s)] = heap[CellAt(arrays', q, s)]
  BY DEF CellAt, SizedIn
<1>5. ASSUME NEW q \in Object, NEW c \in {ref2[q][s] : s \in Slot} \ {NoPtr}
      PROVE  heap'[c] = heap[c]
  <2>1. PICK s \in Slot : c = CellAt(arrays', q, s)
    OBVIOUS
  <2> QED
    BY <1>4, <2>1
<1> QED
  BY <1>3, <1>5 DEF Cells!Take, Cells!CellsOf, CellAt

\* Cells that other objects refer to stay in the pool when o has given back its arrays.
LEMMA OthersStay ==
  ASSUME Inv, NEW o \in Object, Settled(o), NEW n,
         \A a \in Addr : n[a] = pool[a] - OwnCount(arrays, foreign, o, a),
         NEW p \in Object \ {o}, NEW s \in SizedIn(arrays[p])
  PROVE  arrays[p][s][1] \in Addr /\ InPool(n, arrays[p][s][1])
<1>1. s \in Slot /\ Sized(arrays[p][s]) /\ arrays[p][s] \in Pointer
  BY DEF SizedIn, Inv, TypeOK
<1>2. PICK a \in Addr : a = arrays[p][s][1]
  BY <1>1, Starts
<1>3. PICK q \in Object \ {o} : ~foreign[q] /\ arrays[q][s] = Start(a)
  <2>1. CASE ~foreign[p]
    <3>1. \E b \in Addr : arrays[p][s] = Start(b)
      BY <1>1, <2>1 DEF Inv, OwnersHoldStarts, Sized
    <3> QED
      BY <1>2, <2>1, <3>1, Starts
  <2>2. CASE foreign[p]
    <3>1. origin[p] # p
      BY <1>1, <2>2 DEF Inv, RangesPointIntoOrigin, NoArrays, Sized
    <3>2. origin[p] # o
      BY <3>1 DEF Settled
    <3>3. /\ ~foreign[origin[p]] /\ origin[p] \in Object
          /\ arrays[origin[p]][s] = Start(arrays[p][s][1])
      BY <3>1 DEF Inv, TypeOK, RangesPointIntoOrigin
    <3> QED
      BY <1>2, <3>2, <3>3
  <2> QED
    BY <2>1, <2>2
<1>4. <<q, s>> \in OwnersBut(arrays, foreign, o, a)
  BY <1>1, <1>3 DEF OwnersBut, OwnersIn
<1>5. /\ IsFiniteSet(OwnersBut(arrays, foreign, o, a))
      /\ pool[a] = Cardinality(OwnersBut(arrays, foreign, o, a)) + OwnCount(arrays, foreign, o, a)
  BY SplitOwners, RefCountIsBalanced DEF Inv, TypeOK, Balanced
<1>6. /\ Cardinality(OwnersBut(arrays, foreign, o, a)) \in Nat
      /\ Cardinality(OwnersBut(arrays, foreign, o, a)) # 0
  BY <1>4, <1>5, FS_CardinalityType, FS_EmptySet
<1>7. OwnCount(arrays, foreign, o, a) \in Nat
  BY SlotsAtFinite DEF OwnCount
<1> QED
  BY <1>2, <1>5, <1>6, <1>7 DEF InPool

\* Whatever is in the pool, some object refers to.
LEMMA PooledIsReferenced ==
  ASSUME Inv, NEW a \in Addr, InPool(pool, a)
  PROVE  \E p \in Object : \E u \in Slot : CellAt(arrays, p, u) = a
<1>1. Owners(a) # {}
  BY FS_EmptySet DEF Inv, RefCount, InPool
<1>2. PICK os \in Object \X Slot : arrays[os[1]][os[2]] = Start(a)
  BY <1>1 DEF Owners
<1>3. CellAt(arrays, os[1], os[2]) = a
  BY <1>2, Starts DEF CellAt
<1> QED
  BY <1>2, <1>3

\* An end of the program or a step that touches no array is none of the cells'.
LEMMA NoCellStep ==
  ASSUME UNCHANGED <<arrays, heap>>
  PROVE  UNCHANGED Cells!vars
BY DEF Cells!vars

LEMMA FailCells ==
  ASSUME NEW kind, Fail(kind)
  PROVE  UNCHANGED Cells!vars
BY NoCellStep DEF Fail

\* No pointer leaves the pool, after a step as before it.
LEMMA LiveAfter ==
  ASSUME Inv'
  PROVE  \A o \in Object : \A s \in SizedIn(arrays'[o]) :
           arrays'[o][s][1] \in Addr /\ InPool(pool', arrays'[o][s][1])
<1>1. LiveMemory'
  BY InvLiveMemory, PTL
<1>2. ASSUME NEW o \in Object, NEW s \in SizedIn(arrays'[o])
      PROVE  arrays'[o][s][1] \in Addr
  <2>1. s \in Slot /\ Sized(arrays'[o][s]) /\ arrays'[o][s] \in Pointer
    BY <1>2 DEF Inv, TypeOK, SizedIn
  <2> QED
    BY <2>1, Starts
<1> QED
  BY <1>1, <1>2 DEF LiveMemory, SizedIn

\* An object drops its arrays.
LEMMA DiscardCells ==
  ASSUME Inv, Inv', NEW o \in Object, Discard(o)
  PROVE  Cells!Rebind(o)
<1>1. /\ arrays' = [arrays EXCEPT ![o] = NoArrays]
      /\ heap' = HeapWith(pool', NoArrays, <<>>)
  BY DEF Discard
<1>2. arrays'[o] = NoArrays /\ \A p \in Object \ {o} : arrays'[p] = arrays[p]
  BY <1>1 DEF Inv, TypeOK
<1>3. \A s \in Slot : CellAt(arrays', o, s) = NoPtr
  BY <1>2 DEF CellAt, NoArrays, Sized
<1>4. ASSUME NEW a \in Addr, InPool(pool', a)
      PROVE  heap'[a] = heap[a]
  BY <1>1, <1>4, NoArraysOwnNothing DEF HeapWith
<1>5. ASSUME NEW p \in Object \ {o}, NEW s \in Slot, CellAt(arrays, p, s) # NoPtr
      PROVE  heap'[CellAt(arrays, p, s)] = heap[CellAt(arrays, p, s)]
  <2>1. s \in SizedIn(arrays'[p]) /\ CellAt(arrays, p, s) = arrays'[p][s][1]
    BY <1>2, <1>5 DEF CellAt, SizedIn
  <2>2. arrays'[p][s] \in Pointer
    BY <2>1 DEF Inv, TypeOK
  <2>3. arrays'[p][s][1] \in Addr
    BY <2>1, <2>2, Starts DEF SizedIn
  <2>4. InPool(pool', arrays'[p][s][1])
    BY <2>1, LiveAfter DEF LiveMemory
  <2> QED
    BY <1>4, <2>1, <2>3, <2>4
<1>6. heap' \in [Addr -> Content]
  BY DEF Inv, TypeOK
<1> QED
  BY <1>2, <1>3, <1>5, <1>6, RebindStep

\* What is allocated is not in the pool, and every slot gets a cell of its own.
LEMMA AllocationsAreFresh ==
  ASSUME NEW n, NEW sized \in SUBSET Slot, NEW zero \in SUBSET Slot,
         NEW own \in Allocations(n, sized, zero)
  PROVE  \A s \in Slot : Sized(own[s]) =>
           \E a \in Addr : /\ own[s] = Start(a) /\ ~InPool(n, a)
                           /\ \A t \in Slot : own[t] = Start(a) => s = t
<1>1. PICK f \in [sized -> {a \in Addr : ~InPool(n, a)}] :
        /\ own = [s \in Slot |-> IF s \in sized THEN Start(f[s])
                                 ELSE IF s \in zero THEN NullPtr ELSE NoPtr]
        /\ \A s, t \in sized : f[s] = f[t] => s = t
  BY DEF Allocations
<1>2. ASSUME NEW s \in Slot, Sized(own[s])
      PROVE  \E a \in Addr : /\ own[s] = Start(a) /\ ~InPool(n, a)
                             /\ \A t \in Slot : own[t] = Start(a) => s = t
  <2>1. s \in sized
    BY <1>1, <1>2 DEF Sized
  <2>2. f[s] \in Addr /\ ~InPool(n, f[s]) /\ own[s] = Start(f[s])
    BY <1>1, <2>1
  <2>3. ASSUME NEW t \in Slot, own[t] = Start(f[s])
        PROVE  s = t
    <3>1. Sized(own[t])
      BY <2>2, <2>3, Starts
    <3>2. t \in sized
      BY <1>1, <3>1 DEF Sized
    <3>3. f[t] \in Addr /\ own[t] = Start(f[t])
      BY <1>1, <3>2
    <3>4. f[t] = f[s]
      BY <2>2, <2>3, <3>3, Starts
    <3> QED
      BY <1>1, <2>1, <3>2, <3>4
  <2> QED
    BY <2>2, <2>3
<1> QED
  BY <1>2

\* An object drops its arrays, shares some and allocates others.
LEMMA AdoptCells ==
  ASSUME Inv, Inv', NEW o \in Object, Settled(o), NEW n,
         \A a \in Addr : n[a] = pool[a] - OwnCount(arrays, foreign, o, a),
         NEW shared, NEW sized \in SUBSET Slot, NEW zero \in SUBSET Slot, NEW contents, NEW flag,
         Adopt(o, n, shared, sized, zero, contents, flag)
  PROVE  Cells!Rebind(o) \/ UNCHANGED Cells!vars
<1>1. CASE Fail("assert") \/ Fail("throw")
  BY <1>1, FailCells
<1>2. CASE ~Fail("assert") /\ ~Fail("throw")
  <2>1. PICK own \in Allocations(n, sized, zero) :
          /\ CanIncrease(n, shared)
          /\ arrays' = [arrays EXCEPT ![o] =
                          [s \in Slot |-> IF shared[s] = NoPtr THEN own[s] ELSE shared[s]]]
          /\ heap' = HeapWith(pool', own, contents)
    BY <1>2 DEF Adopt
  <2>2. /\ \A p \in Object \ {o} : arrays'[p] = arrays[p]
        /\ \A s \in Slot : arrays'[o][s] = IF shared[s] = NoPtr THEN own[s] ELSE shared[s]
    BY <2>1 DEF Inv, TypeOK
  <2>3. ASSUME NEW s \in Slot
        PROVE  \/ CellAt(arrays', o, s) = NoPtr
               \/ \E a \in Addr : shared[s] = Start(a) /\ InPool(n, a) /\ CellAt(arrays', o, s) = a
               \/ \E a \in Addr : /\ shared[s] = NoPtr /\ own[s] = Start(a) /\ ~InPool(n, a)
                                  /\ CellAt(arrays', o, s) = a
                                  /\ \A t \in Slot : own[t] = Start(a) => s = t
    <3>1. CASE shared[s] # NoPtr
      <4>1. PICK a \in Addr : shared[s] = Start(a) /\ InPool(n, a)
        BY <2>1, <3>1 DEF CanIncrease
      <4>2. CellAt(arrays', o, s) = a
        BY <2>2, <3>1, <4>1, Starts DEF CellAt
      <4> QED
        BY <4>1, <4>2
    <3>2. CASE shared[s] = NoPtr /\ Sized(own[s])
      <4>1. PICK a \in Addr : /\ own[s] = Start(a) /\ ~InPool(n, a)
                              /\ \A t \in Slot : own[t] = Start(a) => s = t
        BY <3>2, AllocationsAreFresh
      <4>2. CellAt(arrays', o, s) = a
        BY <2>2, <3>2, <4>1, Starts DEF CellAt
      <4> QED
        BY <3>2, <4>1, <4>2
    <3>3. CASE shared[s] = NoPtr /\ ~Sized(own[s])
      BY <2>2, <3>3 DEF CellAt
    <3> QED
      BY <3>1, <3>2, <3>3
  <2>4. \A s \in Slot : CellAt(arrays', o, s) \in Addr \cup {NoPtr}
    BY <2>3
  <2>5. ASSUME NEW a \in Addr, InPool(n, a)
        PROVE  InPool(pool, a)
    <3>1. OwnCount(arrays, foreign, o, a) \in Nat /\ pool[a] \in Nat
          /\ n[a] = pool[a] - OwnCount(arrays, foreign, o, a)
      BY SlotsAtFinite DEF OwnCount, Inv, TypeOK, Pool
    <3> QED
      BY <2>5, <3>1 DEF InPool
  <2>6. ASSUME NEW s \in Slot, NEW t \in Slot, s # t,
               CellAt(arrays', o, s) = CellAt(arrays', o, t), CellAt(arrays', o, s) # NoPtr
        PROVE  \E p \in Object : \E u \in Slot : CellAt(arrays', o, s) = CellAt(arrays, p, u)
    <3>1. CASE \E a \in Addr : InPool(n, a) /\ CellAt(arrays', o, s) = a
      <4>1. PICK a \in Addr : InPool(pool, a) /\ CellAt(arrays', o, s) = a
        BY <2>5, <3>1
      <4> QED
        BY <4>1, PooledIsReferenced
    <3>2. CASE ~ \E a \in Addr : InPool(n, a) /\ CellAt(arrays', o, s) = a
      <4>1. PICK a \in Addr : /\ CellAt(arrays', o, s) = a
                              /\ \A u \in Slot : own[u] = Start(a) => s = u
        BY <2>3, <2>6, <3>2
      <4>2. PICK b \in Addr : own[t] = Start(b) /\ CellAt(arrays', o, t) = b
        BY <2>3, <2>6, <3>2
      <4> QED
        BY <2>6, <4>1, <4>2
    <3> QED
      BY <3>1, <3>2
  <2>7. ASSUME NEW p \in Object \ {o}, NEW s \in Slot, CellAt(arrays, p, s) # NoPtr
        PROVE  heap'[CellAt(arrays, p, s)] = heap[CellAt(arrays, p, s)]
    <3>1. PICK a : a = CellAt(arrays, p, s)
      OBVIOUS
    <3>2. s \in SizedIn(arrays[p]) /\ a = arrays[p][s][1] /\ arrays'[p] = arrays[p]
      BY <2>2, <2>7, <3>1 DEF CellAt, SizedIn
    <3>3. a \in Addr /\ InPool(n, a)
      BY <3>2, OthersStay
    <3>4. InPool(pool', a)
      BY <3>2, LiveAfter
    <3>5. SlotsAt(own, a) = {}
      <4> SUFFICES ASSUME NEW t \in Slot, own[t] = Start(a) PROVE FALSE
        BY DEF SlotsAt
      <4>1. Sized(own[t])
        BY <3>3, Starts
      <4>2. PICK b \in Addr : own[t] = Start(b) /\ ~InPool(n, b)
        BY <4>1, AllocationsAreFresh
      <4> QED
        BY <3>3, <4>2, Starts
    <3> QED
      BY <2>1, <3>1, <3>3, <3>4, <3>5 DEF HeapWith
  <2>8. heap' \in [Addr -> Content]
    BY DEF Inv, TypeOK
  <2> QED
    BY <2>2, <2>4, <2>6, <2>7, <2>8, RebindStep
<1> QED
  BY <1>1, <1>2

\* Arrays change hands, and what the receiver had is given back or was nothing.
LEMMA HandOverCells ==
  ASSUME Inv, Inv', NEW o \in Object, NEW p \in Object, o # p, HandOver(p, o),
         heap' = heap \/ heap' = HeapWith(pool', NoArrays, <<>>)
  PROVE  Cells!Take(o, p)
<1>1. /\ arrays' = [arrays EXCEPT ![o] = arrays[p], ![p] = NoArrays]
      /\ arrays \in [Object -> [Slot -> Pointer]] /\ heap' \in [Addr -> Content]
  BY DEF HandOver, Inv, TypeOK
<1>2. ASSUME NEW a \in Addr, InPool(pool', a)
      PROVE  heap'[a] = heap[a]
  BY <1>2, NoArraysOwnNothing DEF HeapWith
<1>3. \A q \in Object : \A s \in SizedIn(arrays'[q]) :
        heap'[arrays'[q][s][1]] = heap[arrays'[q][s][1]]
  BY <1>2, LiveAfter
<1> QED
  BY <1>1, <1>3, TakeStep

\* A range refers to the cells of its vector.
LEMMA MakeRangeCells ==
  ASSUME Inv, Inv', NEW c \in Con, NEW d \in Con, NEW inside \in {0, 1}, MakeRange(c, d, inside)
  PROVE  Cells!Rebind(c)
<1> DEFINE Shift(p) == IF inside = 0 THEN p ELSE Inside(p[1])
           m == [s \in Slot |-> IF s \in ElementSlot THEN Shift(arrays[d][s]) ELSE NoPtr]
<1>1. /\ arrays' = [arrays EXCEPT ![c] = m] /\ heap' = heap
      /\ SizedIn(arrays[d]) = ElementSlot
  BY DEF MakeRange
<1>2. c \in Object /\ d \in Object
  BY DEF Object
<1>3. /\ arrays'[c] = m /\ \A p \in Object \ {c} : arrays'[p] = arrays[p]
  BY <1>1, <1>2 DEF Inv, TypeOK
<1>4. \A s \in ElementSlot : m[s] \in Addr \X {0, 1} /\ arrays[d][s] \in Addr \X {0, 1}
                             /\ m[s][1] = arrays[d][s][1]
  <2>1. \A s \in ElementSlot : arrays[d][s] \in Addr \X {0, 1}
    BY <1>1, <1>2, Starts DEF Inv, TypeOK, SizedIn
  <2>2. \A p \in Addr \X {0, 1} : Shift(p) \in Addr \X {0, 1} /\ Shift(p)[1] = p[1]
    BY DEF Inside
  <2>3. \A s \in ElementSlot : m[s] = Shift(arrays[d][s])
    BY ContainerAssumption
  <2> HIDE DEF Shift, m
  <2> QED
    BY <2>1, <2>2, <2>3
<1>5. \A s \in Slot \ ElementSlot : m[s] = NoPtr
  OBVIOUS
<1> HIDE DEF m
<1>6. \A s \in ElementSlot : CellAt(arrays', c, s) = CellAt(arrays, d, s) /\ CellAt(arrays', c, s) \in Addr
  BY <1>3, <1>4, PointerAssumption DEF CellAt, Sized
<1>7. \A s \in Slot \ ElementSlot : CellAt(arrays', c, s) = NoPtr
  BY <1>3, <1>5 DEF CellAt, Sized
<1>8. \A s \in Slot : CellAt(arrays', c, s) \in Addr \cup {NoPtr}
  BY <1>6, <1>7
<1>9. \A s \in Slot : CellAt(arrays', c, s) # NoPtr =>
        \E p \in Object : \E u \in Slot : CellAt(arrays', c, s) = CellAt(arrays, p, u)
  BY <1>2, <1>6, <1>7
<1>10. heap' \in [Addr -> Content]
  BY DEF Inv, TypeOK
<1> QED
  BY <1>1, <1>2, <1>3, <1>8, <1>9, <1>10, RebindStep

\* Writing reaches the cells of the container that is written to.
LEMMA OverwriteCells ==
  ASSUME Inv, Inv', NEW c \in Object, NEW S \in SUBSET Slot, NEW contents, Overwrite(c, S, contents)
  PROVE  Cells!Write(c)
<1> DEFINE hit(a) == {s \in S : Sized(arrays[c][s]) /\ arrays[c][s][1] = a}
<1>1. /\ heap' = [a \in Addr |-> IF hit(a) = {} THEN heap[a] ELSE contents[CHOOSE s \in hit(a) : TRUE]]
      /\ UNCHANGED arrays
  BY DEF Overwrite
<1>2. ASSUME NEW a \in Addr, heap'[a] # heap[a]
      PROVE  \E s \in Slot : Sized(arrays[c][s]) /\ arrays[c][s][1] = a
  <2>1. hit(a) # {}
    <3> HIDE DEF hit
    <3> QED
      BY <1>1, <1>2
  <2> QED
    BY <2>1
<1>3. \A p \in Object : \A s \in SizedIn(arrays[p]) : arrays[p][s][1] \in Addr
  BY <1>1, LiveAfter
<1>4. heap' \in [Addr -> Content]
  BY DEF Inv, TypeOK
<1> QED
  BY <1>1, <1>2, <1>3, <1>4, WriteStep

\* A constructor of any object, and a container that takes arrays like another one's.
LEMMA AdoptNewCells ==
  ASSUME Inv, Inv', NEW o \in Object, New(o), NEW shared,
         NEW sized \in SUBSET Slot, NEW zero \in SUBSET Slot, NEW contents, NEW flag,
         Adopt(o, pool, shared, sized, zero, contents, flag)
  PROVE  Cells!Rebind(o) \/ UNCHANGED Cells!vars
BY NewObject, AdoptCells

LEMMA AdoptLikeCells ==
  ASSUME Inv, Inv', NEW c \in Con, Settled(c), NEW m, NEW share \in SUBSET Slot, NEW copy, NEW flag,
         AdoptLike(c, Release(pool, Owned(c)), m, share, copy, flag)
  PROVE  Cells!Rebind(c) \/ UNCHANGED Cells!vars
<1>1. c \in Object
  BY DEF Object
<1>2. SizedIn(m) \ share \in SUBSET Slot /\ ZeroIn(m) \ share \in SUBSET Slot
  BY DEF SizedIn, ZeroIn
<1>3. \A a \in Addr : Release(pool, Owned(c))[a] = pool[a] - OwnCount(arrays, foreign, c, a)
  BY <1>1, ReleaseOwned
<1> QED
  BY <1>1, <1>2, <1>3, AdoptCells DEF AdoptLike

\* What a call on the object o may do to the cells.
CellStep(o) ==
  \/ Cells!Rebind(o) \/ Cells!Write(o)
  \/ \E p \in Object : Cells!Take(o, p)
  \/ UNCHANGED Cells!vars

\* Constructors and the destructor.
LEMMA LifeCells ==
  ASSUME Inv, Inv', NEW c \in Con, LifeOf(c)
  PROVE  CellStep(c)
<1>1. c \in Object
  BY DEF Object
<1>2. ASSUME NEW shape \in Shapes, NEW v \in Content, Construct(c, shape, v)
      PROVE  CellStep(c)
  <2> DEFINE sized == {s \in Slot : shape[s] = "sized"}
             zero == {s \in Slot : shape[s] = "zero"}
             contents == [s \in Slot |-> v]
  <2>1. New(c) /\ Adopt(c, pool, NoArrays, sized, zero, contents, FALSE)
    BY <1>2 DEF Construct
  <2>2. sized \in SUBSET Slot /\ zero \in SUBSET Slot
    OBVIOUS
  <2> HIDE DEF sized, zero, contents
  <2> QED
    BY <1>1, <2>1, <2>2, AdoptNewCells DEF CellStep
<1>3. ASSUME NEW S \in SUBSET Slot, NEW parts \in [S -> Con], Wrap(c, parts)
      PROVE  CellStep(c)
  <2>1. PICK list : New(c) /\ Adopt(c, pool, list, {}, {}, <<>>, FALSE)
    BY <1>3 DEF Wrap
  <2>2. {} \in SUBSET Slot
    OBVIOUS
  <2> QED
    BY <1>1, <2>1, <2>2, AdoptNewCells DEF CellStep
<1>4. ASSUME NEW d \in Con, NEW inside \in {0, 1}, MakeRange(c, d, inside)
      PROVE  CellStep(c)
  BY <1>4, MakeRangeCells DEF CellStep
<1>5. ASSUME NEW d \in Con, MoveConstruct(c, d)
      PROVE  CellStep(c)
  <2>1. d \in Object /\ c # d /\ HandOver(d, c) /\ heap' = heap
    BY <1>5 DEF MoveConstruct, New, Live, Object
  <2> QED
    BY <1>1, <2>1, HandOverCells DEF CellStep
<1>6. CASE Destroy(c)
  <2>1. Discard(c) \/ Fail("throw")
    BY <1>6 DEF Destroy
  <2> QED
    BY <1>1, <2>1, DiscardCells, FailCells DEF CellStep
<1> QED
  BY <1>2, <1>3, <1>4, <1>5, <1>6 DEF LifeOf

\* Operations of a live container.
LEMMA UseCells ==
  ASSUME Inv, Inv', Permit = {}, NEW c \in Con, UseOf(c)
  PROVE  CellStep(c)
<1>1. c \in Object /\ ElementSlot \in SUBSET Slot
  BY ContainerAssumption DEF Object
<1>2. \A call : ~(call \in Permit)
  OBVIOUS
<1>3. CASE Clear(c)
  <2>1. Discard(c) \/ Fail("throw")
    BY <1>3 DEF Clear
  <2> QED
    BY <1>1, <2>1, DiscardCells, FailCells DEF CellStep
<1>4. ASSUME NEW d \in Con, NEW mode \in CloneMode, Clone(c, d, mode)
      PROVE  CellStep(c)
  <2>1. SharedSlots(mode) \in SUBSET Slot
    BY DEF SharedSlots, CloneMode, IndexSlot
  <2>2. Settled(c)
    BY <1>4 DEF Clone
  <2>3. \/ Fail("throw")
        \/ AdoptLike(c, Release(pool, Owned(c)), arrays[d], SharedSlots(mode), CopiedSlots(mode), FALSE)
    BY <1>4 DEF Clone
  <2> QED
    BY <2>1, <2>2, <2>3, AdoptLikeCells, FailCells DEF CellStep
<1>5. ASSUME NEW d \in Con, NEW mode \in CloneMode, CloneAcross(c, d, mode)
      PROVE  CellStep(c)
  <2> DEFINE same == SameType(c, d)
             shared == SharedSlots(mode)
  <2>1. same \cap shared \in SUBSET Slot
    BY DEF SameType
  <2>2. Settled(c)
    BY <1>5 DEF CloneAcross
  <2>3. \/ Fail("assert") \/ Fail("throw")
        \/ AdoptLike(c, Release(pool, Owned(c)), arrays[d], same \cap shared,
                     CopiedSlots(mode) \cup (shared \ same), FALSE)
    BY <1>5 DEF CloneAcross
  <2> HIDE DEF same, shared
  <2> QED
    BY <2>1, <2>2, <2>3, AdoptLikeCells, FailCells DEF CellStep
<1>6. ASSUME NEW d \in Con, Assign(c, d)
      PROVE  CellStep(c)
  <2>1. ~foreign[c] /\ c # d /\ Settled(c)
    BY <1>2, <1>6 DEF Assign, Allowed
  <2>2. Owned(c) = arrays[c]
    BY <1>1, <2>1, OwnerOrigin
  <2>3. SameType(c, d) \in SUBSET Slot
    BY DEF SameType
  <2>4. \/ Fail("throw")
        \/ AdoptLike(c, Release(pool, Owned(c)), arrays[d], SameType(c, d), Slot, foreign[c])
    BY <1>6, <2>1, <2>2 DEF Assign
  <2> QED
    BY <2>1, <2>3, <2>4, AdoptLikeCells, FailCells DEF CellStep
<1>7. ASSUME NEW d \in Con, Move(c, d)
      PROVE  CellStep(c)
  <2>1. d \in Object /\ c # d
    BY <1>7 DEF Move, Object
  <2>2. Fail("throw") \/ (HandOver(d, c) /\ heap' = HeapWith(pool', NoArrays, <<>>))
    BY <1>7 DEF Move
  <2> QED
    BY <1>1, <2>1, <2>2, HandOverCells, FailCells DEF CellStep
<1>8. ASSUME NEW v \in Val, Format(c, v)
      PROVE  CellStep(c)
  <2>1. Overwrite(c, ElementSlot, [s \in Slot |-> v])
    BY <1>8 DEF Format
  <2> QED
    BY <1>1, <2>1, OverwriteCells DEF CellStep
<1>9. ASSUME NEW d \in Con, NEW full \in BOOLEAN, CopyContent(c, d, full)
      PROVE  CellStep(c)
  <2>1. PICK S \in SUBSET Slot : Overwrite(c, S, View(d))
    BY <1>1, <1>9 DEF CopyContent
  <2> QED
    BY <1>1, <2>1, OverwriteCells DEF CellStep
<1> QED
  BY <1>3, <1>4, <1>5, <1>6, <1>7, <1>8, <1>9 DEF UseOf

\* Layouts, and what matrices do with them.
LEMMA LayoutCells ==
  ASSUME Inv, Inv', NEW l \in Layout, LayoutStep(l)
  PROVE  \E o \in Object : CellStep(o)
<1>1. l \in Object /\ {} \in SUBSET Slot /\ ElementSlot \in SUBSET Slot
  BY ContainerAssumption DEF Object
<1>2. CASE NewLayout(l)
  BY <1>1, <1>2, NoCellStep DEF NewLayout, CellStep
<1>3. CASE DestroyLayout(l)
  <2>1. Discard(l) \/ Fail("throw")
    BY <1>3 DEF DestroyLayout
  <2> QED
    BY <1>1, <2>1, DiscardCells, FailCells DEF CellStep
<1>4. ASSUME NEW c \in Con, MakeLayout(l, c)
      PROVE  CellStep(l)
  <2>1. New(l) /\ Adopt(l, pool, Only(arrays[c], IndexSlot), {}, {}, <<>>, FALSE)
    BY <1>4 DEF MakeLayout
  <2> QED
    BY <1>1, <2>1, AdoptNewCells DEF CellStep
<1>5. ASSUME NEW c \in Con, FromLayout(c, l)
      PROVE  c \in Object /\ CellStep(c)
  <2>1. c \in Object
    BY DEF Object
  <2>2. PICK contents : New(c) /\ Adopt(c, pool, arrays[l], ElementSlot, {}, contents, FALSE)
    BY <1>5 DEF FromLayout
  <2> QED
    BY <1>1, <2>1, <2>2, AdoptNewCells DEF CellStep
<1>6. ASSUME NEW c \in Con, AssignLayout(c, l)
      PROVE  c \in Object /\ CellStep(c)
  <2>1. c \in Object /\ ~foreign[c] /\ Settled(c)
    BY <1>6 DEF AssignLayout, Object
  <2>2. Owned(c) = arrays[c]
    BY <2>1, OwnerOrigin
  <2>3. PICK contents : \/ Fail("throw")
                    \/ Adopt(c, Release(pool, Owned(c)), arrays[l], ElementSlot, {}, contents, foreign[c])
    BY <1>6, <2>2 DEF AssignLayout
  <2>4. \A a \in Addr : Release(pool, Owned(c))[a] = pool[a] - OwnCount(arrays, foreign, c, a)
    BY <2>1, ReleaseOwned
  <2> QED
    BY <1>1, <2>1, <2>3, <2>4, AdoptCells, FailCells DEF CellStep
<1>7. ASSUME NEW k \in Layout, MoveConstructLayout(l, k) \/ MoveLayout(l, k)
      PROVE  CellStep(l)
  <2>1. k \in Object /\ l # k /\ HandOver(k, l) /\ heap' = heap
    BY <1>7 DEF MoveConstructLayout, MoveLayout, New, Live, Object
  <2> QED
    BY <1>1, <2>1, HandOverCells DEF CellStep
<1> QED
  BY <1>1, <1>2, <1>3, <1>4, <1>5, <1>6, <1>7 DEF LayoutStep

\* Every step of a program without delicate calls is a step of the cells, or none.
LEMMA StepOfCells ==
  ASSUME Permit = {}, Inv, Inv', [Next]_vars
  PROVE  [Cells!Next]_(Cells!vars)
<1>1. CASE \E c \in Con : LifeOf(c) \/ UseOf(c)
  BY <1>1, LifeCells, UseCells DEF CellStep, Cells!Next, Object
<1>2. CASE \E l \in Layout : LayoutStep(l)
  BY <1>2, LayoutCells DEF CellStep, Cells!Next
<1>3. CASE Finalise
  BY <1>3, FailCells DEF Finalise
<1>4. CASE UNCHANGED vars
  BY <1>4, NoCellStep DEF vars
<1> QED
  BY <1>1, <1>2, <1>3, <1>4 DEF Next

\* In a program without delicate calls containers and layouts are objects that share
\* garbage-collected cells: what an object shows changes only by a call on it or a write
\* through an object that shares the cell, whatever the counters and addresses do.
THEOREM ContainersShareArrays == ASSUME Permit = {} PROVE Spec => ImplementsSharedArrays
<1>1. Permit = {}
  OBVIOUS
<1>2. Init => Cells!Init
  BY DEF Init, Cells!Init, NoArrays, Sized, Content
<1>3. Inv /\ Inv' /\ [Next]_vars => [Cells!Next]_(Cells!vars)
  BY <1>1, StepOfCells
<1> QED
  BY <1>1, <1>2, <1>3, InitInv, NextInv, PTL DEF Spec, ImplementsSharedArrays, Cells!Spec

----------------------------------------------------------------------------
(* Deep clones.                                                            *)

\* A deep clone allocates all its arrays, in cells nobody else has, and fills them from its source.
LEMMA DeepClone ==
  ASSUME Inv, Inv', NEW c \in Con, NEW d \in Con, Clone(c, d, "Deep"), fault' = "none"
  PROVE  /\ View(c)' = View(d) /\ View(d)' = View(d)
         /\ \A o \in Object \ {c} : \A s \in Slot, t \in SizedIn(arrays'[c]) :
              Sized(arrays'[o][s]) => arrays'[o][s][1] # arrays'[c][t][1]
<1> DEFINE n == Release(pool, Owned(c))
           sized == SizedIn(arrays[d])
           zero == ZeroIn(arrays[d])
           contents == [s \in Slot |-> At(n, arrays[d][s])]
<1>1. c \in Object /\ d \in Object /\ c # d /\ Settled(c) /\ fault = "none"
  BY DEF Clone, Live, Object
<1>2. \A a \in Addr : n[a] = pool[a] - OwnCount(arrays, foreign, c, a)
  BY <1>1, ReleaseOwned
<1>3. Adopt(c, n, NoArrays, sized, zero, contents, FALSE)
  <2>1. AdoptLike(c, n, arrays[d], {}, Slot, FALSE)
    BY DEF Clone, Fail, SharedSlots, CopiedSlots
  <2>2. Only(arrays[d], {}) = NoArrays /\ sized \ {} = sized /\ zero \ {} = zero
    BY DEF Only, NoArrays
  <2>3. [s \in Slot |-> IF s \in Slot THEN At(n, arrays[d][s]) ELSE Undef] = contents
    OBVIOUS
  <2> HIDE DEF n, contents
  <2> QED
    BY <2>1, <2>2, <2>3 DEF AdoptLike
<1>4. sized \in SUBSET Slot /\ zero \in SUBSET Slot
  BY DEF SizedIn, ZeroIn
<1> HIDE DEF n, contents
<1>5. PICK own \in Allocations(n, sized, zero) :
        /\ arrays' = [arrays EXCEPT ![c] =
                        [s \in Slot |-> IF NoArrays[s] = NoPtr THEN own[s] ELSE NoArrays[s]]]
        /\ heap' = HeapWith(pool', own, contents)
  BY <1>3 DEF Adopt, Fail
<1>6. \A s \in Slot : Sized(own[s]) =>
         \E a \in Addr : /\ own[s] = Start(a) /\ ~InPool(n, a)
                         /\ \A t \in Slot : own[t] = Start(a) => s = t
  <2> HIDE DEF sized, zero
  <2> QED
    BY <1>4, AllocationsAreFresh
<1>7. /\ \A s \in Slot : arrays'[c][s] = own[s]
      /\ \A o \in Object \ {c} : arrays'[o] = arrays[o]
  BY <1>1, <1>5 DEF Inv, TypeOK, NoArrays
\* What others refer to stays in the pool, and none of it is new.
<1>8. ASSUME NEW o \in Object \ {c}, NEW s \in SizedIn(arrays[o])
      PROVE  /\ arrays[o][s][1] \in Addr /\ InPool(n, arrays[o][s][1])
             /\ InPool(pool, arrays[o][s][1]) /\ InPool(pool', arrays[o][s][1])
             /\ SlotsAt(own, arrays[o][s][1]) = {}
  <2>1. PICK a : a = arrays[o][s][1]
    OBVIOUS
  <2>2. a \in Addr /\ InPool(n, a)
    BY <1>1, <1>2, <2>1, OthersStay
  <2>3. InPool(pool, a) /\ InPool(pool', a)
    BY <1>7, <2>1, InvLiveMemory, LiveAfter DEF LiveMemory
  <2>4. ASSUME NEW t \in Slot, own[t] = Start(a)
        PROVE  FALSE
    <3>1. Sized(own[t])
      BY <2>2, <2>4, Starts
    <3>2. PICK b \in Addr : own[t] = Start(b) /\ ~InPool(n, b)
      BY <1>6, <3>1
    <3> QED
      BY <2>2, <2>4, <3>2, Starts
  <2> QED
    BY <2>1, <2>2, <2>3, <2>4 DEF SlotsAt
<1>9. ASSUME NEW s \in Slot, Sized(arrays[d][s])
      PROVE  \E a \in Addr, b \in Addr :
               /\ arrays[d][s][1] = a /\ InPool(pool, a) /\ InPool(pool', a) /\ heap'[a] = heap[a]
               /\ own[s] = Start(b) /\ InPool(pool', b) /\ heap'[b] = heap[a]
  <2>1. PICK a : a = arrays[d][s][1]
    OBVIOUS
  <2>2. s \in sized
    BY <1>9 DEF SizedIn
  <2>3. /\ a \in Addr /\ InPool(n, a) /\ InPool(pool, a) /\ InPool(pool', a)
        /\ SlotsAt(own, a) = {}
    BY <1>1, <1>8, <2>1, <2>2
  <2>4. heap'[a] = heap[a]
    BY <1>5, <2>3 DEF HeapWith
  <2>5. PICK b \in Addr : own[s] = Start(b) /\ \A t \in Slot : own[t] = Start(b) => s = t
    <3>1. Sized(own[s])
      BY <1>4, <2>2, AllocationsType, Starts
    <3> QED
      BY <1>6, <3>1
  <2>6. InPool(pool', b)
    <3>1. s \in SizedIn(arrays'[c]) /\ arrays'[c][s][1] = b
      BY <1>7, <2>5, Starts DEF SizedIn
    <3> QED
      BY <1>1, <3>1, LiveAfter
  <2>7. SlotsAt(own, b) = {s}
    BY <2>5 DEF SlotsAt
  <2>8. heap'[b] = contents[s]
    BY <1>5, <2>6, <2>7 DEF HeapWith
  <2>9. contents[s] = heap[a]
    BY <1>9, <2>1, <2>3 DEF contents, At
  <2> QED
    BY <2>1, <2>3, <2>4, <2>5, <2>6, <2>8, <2>9
<1>10. ASSUME NEW s \in Slot, ~Sized(arrays[d][s])
      PROVE  ~Sized(own[s])
  <2>1. s \in Slot \ sized
    BY <1>10 DEF SizedIn
  <2> QED
    BY <1>4, <2>1, AllocationsType DEF Sized
<1>11. ASSUME NEW s \in Slot
       PROVE  /\ (IF Sized(arrays'[c][s]) /\ InPool(pool', arrays'[c][s][1])
                  THEN heap'[arrays'[c][s][1]] ELSE Undef)
                 = (IF Sized(arrays[d][s]) /\ InPool(pool, arrays[d][s][1])
                    THEN heap[arrays[d][s][1]] ELSE Undef)
              /\ (IF Sized(arrays'[d][s]) /\ InPool(pool', arrays'[d][s][1])
                  THEN heap'[arrays'[d][s][1]] ELSE Undef)
                 = (IF Sized(arrays[d][s]) /\ InPool(pool, arrays[d][s][1])
                    THEN heap[arrays[d][s][1]] ELSE Undef)
  <2>1. arrays'[c][s] = own[s] /\ arrays'[d][s] = arrays[d][s]
    BY <1>1, <1>7
  <2>2. CASE Sized(arrays[d][s])
    BY <1>9, <2>1, <2>2, Starts
  <2>3. CASE ~Sized(arrays[d][s])
    BY <1>10, <2>1, <2>3
  <2> QED
    BY <2>2, <2>3
<1>12. View(c)' = View(d) /\ View(d)' = View(d)
  BY <1>11 DEF View, At
<1>13. ASSUME NEW o \in Object \ {c}, NEW s \in Slot, NEW t \in SizedIn(arrays'[c]),
              Sized(arrays'[o][s])
       PROVE  arrays'[o][s][1] # arrays'[c][t][1]
  <2>1. s \in SizedIn(arrays[o]) /\ arrays'[o][s] = arrays[o][s]
    BY <1>7, <1>13 DEF SizedIn
  <2>2. t \in Slot /\ arrays'[c][t] = own[t] /\ Sized(own[t])
    BY <1>7, <1>13 DEF SizedIn
  <2>3. PICK a \in Addr : own[t] = Start(a)
    BY <1>6, <2>2
  <2>4. SlotsAt(own, arrays[o][s][1]) = {}
    BY <1>8, <2>1
  <2> QED
    BY <2>1, <2>2, <2>3, <2>4, Starts DEF SlotsAt
<1> QED
  BY <1>12, <1>13

\* In a program without delicate calls a deep clone shows what its source shows, leaves the
\* source as it is, and nobody else refers to its arrays.
THEOREM DeepClonesAreIndependent == ASSUME Permit = {} PROVE Spec => DeepCloneIsIndependent
<1>1. Permit = {}
  OBVIOUS
<1>2. Inv /\ Inv' /\ [Next]_vars =>
        [\A c, d \in Con : Clone(c, d, "Deep") /\ fault' = "none" =>
           /\ View(c)' = View(d) /\ View(d)' = View(d)
           /\ \A o \in Object \ {c} : \A s \in Slot, t \in SizedIn(arrays'[c]) :
                Sized(arrays'[o][s]) => arrays'[o][s][1] # arrays'[c][t][1]]_vars
  BY DeepClone
<1> QED
  BY <1>1, <1>2, InitInv, NextInv, PTL DEF Spec, DeepCloneIsIndependent

-----------------------------------------------------------------------------
(* Checkpoints.                                                              *)

----------------------------------------------------------------------------
(* Buffers.                                                                *)

\* The elements of a finite set, each once.
LEMMA SetToSeqIs ==
  ASSUME NEW S, IsFiniteSet(S)
  PROVE  \E n \in Nat : /\ SetToSeq(S) \in [1 .. n -> S]
                        /\ Len(SetToSeq(S)) = n
                        /\ \A a, b \in 1 .. n : SetToSeq(S)[a] = SetToSeq(S)[b] => a = b
                        /\ \A x \in S : \E a \in 1 .. n : SetToSeq(S)[a] = x
<1> DEFINE n == Cardinality(S)
           s == SetToSeq(S)
<1>1. n \in Nat /\ ExistsBijection(1 .. n, S)
  BY FS_CardinalityType
<1>2. \E f \in [1 .. n -> S] : IsInjective(f)
  BY <1>1 DEF ExistsBijection, Bijection, Injection
<1>3. s \in [1 .. n -> S] /\ IsInjective(s)
  BY <1>2 DEF SetToSeq
<1>4. s \in Injection(1 .. n, S)
  BY <1>3 DEF Injection
<1>5. Cardinality(1 .. n) = n
  <2>1. Cardinality(1 .. n) = IF 1 > n THEN 0 ELSE n - 1 + 1
    BY <1>1, FS_Interval
  <2> QED
    BY <1>1, <2>1
<1>6. s \in Surjection(1 .. n, S)
  BY <1>4, <1>5, FS_Injection
<1>7. \A x \in S : \E a \in 1 .. n : s[a] = x
  BY <1>6 DEF Surjection
<1>8. Len(s) = n
  BY <1>1, <1>3
<1>9. \A a, b \in 1 .. n : s[a] = s[b] => a = b
  BY <1>3 DEF IsInjective
<1> HIDE DEF n, s
<1>10. s = SetToSeq(S)
  BY DEF s
<1> QED
  BY <1>1, <1>3, <1>7, <1>8, <1>9, <1>10

\* What a process may have read: cells that say a size say a number.
IsBuffer(b) ==
  /\ IsSeq(b)
  /\ \A k \in 1 .. Len(b) : b[k][1] = "size" => b[k][2] \in Nat

\* Objects by their identifiers.
IsObjects(objs) ==
  /\ IsFiniteSet(DOMAIN objs)
  /\ objs = [i \in DOMAIN objs |-> objs[i]]
  /\ \A i \in DOMAIN objs : IsBuffer(objs[i])

EntriesOf(objs) ==
  [k \in 1 .. Len(SetToSeq(DOMAIN objs)) |->
     Entry(SetToSeq(DOMAIN objs)[k], objs[SetToSeq(DOMAIN objs)[k]])]
CollectOf(objs) == FlattenSeq(EntriesOf(objs))

LEMMA CollectIsOf == ASSUME NEW p, IsFiniteSet(registered[p]) PROVE Collect(p) = CollectOf(Snapshot(p).objects)
<1> DEFINE o == Snapshot(p).objects
<1>1. o = [i \in registered[p] |-> object[p][i]] /\ DOMAIN o = registered[p]
  BY DEF Snapshot
<1>2. PICK n \in Nat : SetToSeq(registered[p]) \in [1 .. n -> registered[p]] /\ Len(SetToSeq(registered[p])) = n
  BY SetToSeqIs
<1>3. \A k \in 1 .. n : o[SetToSeq(registered[p])[k]] = object[p][SetToSeq(registered[p])[k]]
  BY <1>1, <1>2
<1> HIDE DEF o
<1>4. EntriesOf(o) = [k \in 1 .. n |-> Entry(SetToSeq(registered[p])[k], object[p][SetToSeq(registered[p])[k]])]
  BY <1>1, <1>2, <1>3 DEF EntriesOf
<1>5. o = Snapshot(p).objects
  BY DEF o
<1> QED
  BY <1>2, <1>4, <1>5 DEF Collect, CollectOf

LEMMA EntryIs ==
  ASSUME NEW i, NEW v, IsBuffer(v)
  PROVE  /\ IsBuffer(Entry(i, v))
         /\ Len(v) \in Nat
         /\ Len(Entry(i, v)) = Len(v) + 2
         /\ Entry(i, v)[1] = <<"id", i>>
         /\ Entry(i, v)[2] = <<"size", Len(v)>>
         /\ \A k \in 1 .. Len(v) : Entry(i, v)[k + 2] = v[k]
<1> DEFINE h == <<<<"id", i>>, <<"size", Len(v)>>>>
           e == h \o v
<1>1. IsSeq(h) /\ Len(h) = 2 /\ h[1] = <<"id", i>> /\ h[2] = <<"size", Len(v)>>
  <2>1. h \in Seq({<<"id", i>>, <<"size", Len(v)>>})
    OBVIOUS
  <2> QED
    BY <2>1 DEF IsSeq
<1>2. IsSeq(v) /\ Len(v) \in Nat
  BY SeqLength DEF IsBuffer
<1> HIDE DEF h
<1>3. /\ IsSeq(e) /\ Len(e) = Len(h) + Len(v)
      /\ \A k \in 1 .. Len(h) : e[k] = h[k]
      /\ \A k \in 1 .. Len(v) : e[Len(h) + k] = v[k]
  <2>1. PICK s, t : s = h /\ t = v
    OBVIOUS
  <2>2. /\ IsSeq(s \o t) /\ Len(s \o t) = Len(s) + Len(t)
        /\ \A k \in 1 .. Len(s) : (s \o t)[k] = s[k]
        /\ \A k \in 1 .. Len(t) : (s \o t)[Len(s) + k] = t[k]
    BY <1>1, <1>2, <2>1, SeqConcat
  <2> QED
    BY <2>1, <2>2
<1> HIDE DEF e
<1>4. e = Entry(i, v)
  BY DEF e, h, Entry
<1>5. e[1] = <<"id", i>> /\ e[2] = <<"size", Len(v)>>
  BY <1>1, <1>3
<1>6. \A k \in 1 .. Len(v) : e[k + 2] = v[k]
  BY <1>1, <1>2, <1>3
<1>7. ASSUME NEW k \in 1 .. Len(e), e[k][1] = "size" PROVE e[k][2] \in Nat
  <2>1. k = 1 \/ k = 2 \/ (k - 2 \in 1 .. Len(v) /\ (k - 2) + 2 = k)
    BY <1>1, <1>2, <1>3
  <2>2. CASE k = 1
    BY <1>5, <1>7, <2>2
  <2>3. CASE k = 2
    BY <1>2, <1>5, <2>3
  <2>4. CASE k - 2 \in 1 .. Len(v) /\ (k - 2) + 2 = k
    <3>1. e[k] = v[k - 2]
      BY <1>6, <2>4
    <3> QED
      BY <1>7, <2>4, <3>1 DEF IsBuffer
  <2> QED
    BY <2>1, <2>2, <2>3, <2>4
<1> QED
  BY <1>1, <1>2, <1>3, <1>4, <1>5, <1>6, <1>7 DEF IsBuffer

\* The entries of a buffer, and the objects they are of.
EntriesAt(objs, n) ==
  /\ n \in Nat
  /\ IsPieces(EntriesOf(objs), n)
  /\ SetToSeq(DOMAIN objs) \in [1 .. n -> DOMAIN objs]
  /\ \A a, b \in 1 .. n : SetToSeq(DOMAIN objs)[a] = SetToSeq(DOMAIN objs)[b] => a = b
  /\ \A x \in DOMAIN objs : \E a \in 1 .. n : SetToSeq(DOMAIN objs)[a] = x
  /\ \A k \in 1 .. n : LET i == SetToSeq(DOMAIN objs)[k]
                       IN  /\ i \in DOMAIN objs
                           /\ IsBuffer(objs[i])
                           /\ EntriesOf(objs)[k] = Entry(i, objs[i])

LEMMA EntriesAre ==
  ASSUME NEW objs, IsObjects(objs)
  PROVE  \E n : EntriesAt(objs, n)
<1>1. PICK n \in Nat :
        /\ SetToSeq(DOMAIN objs) \in [1 .. n -> DOMAIN objs]
        /\ Len(SetToSeq(DOMAIN objs)) = n
        /\ \A a, b \in 1 .. n : SetToSeq(DOMAIN objs)[a] = SetToSeq(DOMAIN objs)[b] => a = b
        /\ \A x \in DOMAIN objs : \E a \in 1 .. n : SetToSeq(DOMAIN objs)[a] = x
  BY SetToSeqIs DEF IsObjects
<1>2. ASSUME NEW k \in 1 .. n
      PROVE  LET i == SetToSeq(DOMAIN objs)[k]
             IN  i \in DOMAIN objs /\ IsBuffer(objs[i]) /\ EntriesOf(objs)[k] = Entry(i, objs[i])
  BY <1>1 DEF IsObjects, EntriesOf
<1>3. IsPieces(EntriesOf(objs), n)
  <2>1. EntriesOf(objs) = [k \in 1 .. n |-> EntriesOf(objs)[k]]
    BY <1>1 DEF EntriesOf
  <2>2. \A k \in 1 .. n : IsSeq(EntriesOf(objs)[k])
    <3> TAKE k \in 1 .. n
    <3>1. PICK i : i = SetToSeq(DOMAIN objs)[k]
      OBVIOUS
    <3>2. IsBuffer(objs[i]) /\ EntriesOf(objs)[k] = Entry(i, objs[i])
      BY <1>2, <3>1
    <3> QED
      BY <3>2, EntryIs DEF IsBuffer
  <2> QED
    BY <2>1, <2>2 DEF IsPieces
<1> QED
  BY <1>1, <1>2, <1>3 DEF EntriesAt

\* What a process collects is a buffer.
LEMMA CollectIsBuffer ==
  ASSUME NEW objs, IsObjects(objs)
  PROVE  IsBuffer(CollectOf(objs))
<1> DEFINE e == EntriesOf(objs)
           c == CollectOf(objs)
<1>1. PICK n : EntriesAt(objs, n)
  BY EntriesAre
<1>6. IsPieces(e, n)
  BY <1>1 DEF EntriesAt
<1>2. /\ IsSeq(c) /\ Len(c) = Before(e, n + 1)
      /\ \A i \in 1 .. n : \A k \in 1 .. Len(e[i]) : c[Before(e, i) + k] = e[i][k]
  BY <1>6, FlattenIs DEF CollectOf
<1> HIDE DEF c
<1>3. \A k \in 1 .. n : IsBuffer(e[k])
  <2> TAKE k \in 1 .. n
  <2>1. PICK i : i = SetToSeq(DOMAIN objs)[k]
    OBVIOUS
  <2>2. IsBuffer(objs[i]) /\ e[k] = Entry(i, objs[i])
    BY <1>1, <2>1 DEF EntriesAt
  <2> HIDE DEF e
  <2> QED
    BY <2>2, EntryIs
<1> HIDE DEF e
<1>4. ASSUME NEW m \in 1 .. Len(c), c[m][1] = "size" PROVE c[m][2] \in Nat
  <2>1. PICK i \in 1 .. n : \E k \in 1 .. Len(e[i]) : m = Before(e, i) + k
    BY <1>6, <1>2, PieceAt DEF InSomePiece
  <2>2. PICK k \in 1 .. Len(e[i]) : m = Before(e, i) + k
    BY <2>1
  <2>3. c[m] = e[i][k]
    BY <1>2, <2>2
  <2> QED
    BY <1>3, <1>4, <2>3 DEF IsBuffer
<1>5. IsBuffer(c)
  BY <1>2, <1>4 DEF IsBuffer
<1> QED
  BY <1>5 DEF c

----------------------------------------------------------------------------
(* Parse finds what Collect has put there.                                 *)

Step(f, cells, k) ==
  IF k >= Len(cells) THEN <<>>
  ELSE IF cells[k][1] # "id" \/ cells[k + 1][1] # "size" THEN <<>>
  ELSE LET next == k + 2 + cells[k + 1][2]
           rest == IF next > Len(cells) THEN <<>> ELSE f[next]
       IN  Inserted(rest, cells[k][2], k + 1)

IsParse(f, cells) == f = [k \in 1 .. Len(cells) + 1 |-> Step(f, cells, k)]

LEMMA StepLater ==
  ASSUME NEW cells, IsBuffer(cells), NEW k \in 1 .. Len(cells) + 1, NEW f, NEW g,
         \A j \in k + 1 .. Len(cells) + 1 : f[j] = g[j]
  PROVE  Step(f, cells, k) = Step(g, cells, k)
<1>1. Len(cells) \in Nat
  BY SeqLength DEF IsBuffer
<1>2. CASE k >= Len(cells) \/ cells[k][1] # "id" \/ cells[k + 1][1] # "size"
  BY <1>2 DEF Step
<1>3. CASE ~(k >= Len(cells) \/ cells[k][1] # "id" \/ cells[k + 1][1] # "size")
  <2>1. k + 1 \in 1 .. Len(cells)
    BY <1>1, <1>3
  <2>2. PICK n \in Nat : n = cells[k + 1][2]
    BY <1>3, <2>1 DEF IsBuffer
  <2>3. k + 2 + n > Len(cells) \/ f[k + 2 + n] = g[k + 2 + n]
    <3>1. CASE k + 2 + n <= Len(cells)
      <4>1. k + 2 + n \in k + 1 .. Len(cells) + 1
        BY <1>1, <2>2, <3>1
      <4> QED
        BY <4>1
    <3> QED
      BY <1>1, <2>2, <3>1
  <2> QED
    BY <1>3, <2>2, <2>3 DEF Step
<1> QED
  BY <1>2, <1>3

LEMMA ParseExists ==
  ASSUME NEW cells, IsBuffer(cells)
  PROVE  \E f : IsParse(f, cells)
<1> DEFINE n == Len(cells) + 1
           Part(f, k) == f = [j \in k .. n |-> Step(f, cells, j)]
           T == {k \in 1 .. n : \E f : Part(f, k)}
<1>1. n \in Nat /\ Len(cells) \in Nat
  BY SeqLength DEF IsBuffer
<1> HIDE DEF n
<1>2. ASSUME NEW k \in 1 .. n, \A j \in k + 1 .. n : j \in T PROVE k \in T
  <2>1. PICK f : Part(f, k + 1)
    <3>1. CASE k + 1 \in 1 .. n
      BY <1>2, <3>1
    <3>2. CASE k + 1 \notin 1 .. n
      <4>1. k + 1 .. n = {}
        BY <1>1, <3>2
      <4>2. Part([j \in {} |-> 0], k + 1)
        BY <4>1
      <4> QED
        BY <4>2
    <3> QED
      BY <3>1, <3>2
  <2> DEFINE g == [j \in k .. n |-> IF j = k THEN Step(f, cells, k) ELSE f[j]]
  <2>2. \A j \in k + 1 .. n : j \in k .. n /\ j # k /\ g[j] = f[j]
    BY <1>1
  <2>3. ASSUME NEW j \in k .. n PROVE Step(g, cells, j) = Step(f, cells, j)
    <3>1. j \in 1 .. Len(cells) + 1 /\ \A i \in j + 1 .. n : i \in k + 1 .. n
      BY <1>1 DEF n
    <3>2. \A i \in j + 1 .. Len(cells) + 1 : g[i] = f[i]
      BY <2>2, <3>1 DEF n
    <3> HIDE DEF g
    <3> QED
      BY <3>1, <3>2, StepLater
  <2>4. ASSUME NEW j \in k .. n PROVE g[j] = Step(g, cells, j)
    <3>1. CASE j = k
      BY <2>3, <3>1
    <3>2. CASE j # k
      <4>1. j \in k + 1 .. n
        BY <1>1, <3>2
      <4>2. f[j] = Step(f, cells, j)
        BY <2>1, <4>1
      <4> QED
        BY <2>2, <2>3, <4>1, <4>2
    <3> QED
      BY <3>1, <3>2
  <2>5. Part(g, k)
    <3>1. g = [j \in k .. n |-> g[j]]
      OBVIOUS
    <3> HIDE DEF g
    <3> QED
      BY <2>4, <3>1
  <2> HIDE DEF g, Part
  <2> QED
    BY <2>5
<1>3. 1 \in T
  <2> HIDE DEF T
  <2>1. 1 \in 1 .. n
    BY <1>1 DEF n
  <2> QED
    BY <1>1, <1>2, <2>1, AllDownwards
<1>4. PICK f : Part(f, 1)
  BY <1>3
<1>5. IsParse(f, cells)
  BY <1>4 DEF IsParse, n
<1> QED
  BY <1>5

\* Parse is the first entry of the table.
LEMMA ParseTable ==
  ASSUME NEW cells, IsBuffer(cells)
  PROVE  \E f : IsParse(f, cells) /\ Parse(cells) = f[1]
<1> DEFINE F(h) == [k \in 1 .. Len(cells) + 1 |->
                      IF k >= Len(cells) THEN <<>>
                      ELSE IF cells[k][1] # "id" \/ cells[k + 1][1] # "size" THEN <<>>
                      ELSE LET next == k + 2 + cells[k + 1][2]
                               rest == IF next > Len(cells) THEN <<>> ELSE h[next]
                           IN  Inserted(rest, cells[k][2], k + 1)]
           it == CHOOSE h : h = F(h)
<1>1. PICK h : IsParse(h, cells)
  BY ParseExists
<1>2. h = F(h)
  BY <1>1 DEF IsParse, Step
<1>3. it = F(it)
  <2> HIDE DEF F
  <2> QED
    BY <1>2
<1>4. Parse(cells) = it[1]
  BY DEF Parse
<1> HIDE DEF it
<1>5. IsParse(it, cells)
  BY <1>3 DEF IsParse, Step
<1> QED
  BY <1>4, <1>5

\* What it finds are sizes of objects.
LEMMA ParseFinds ==
  ASSUME NEW cells, IsBuffer(cells), NEW i \in DOMAIN Parse(cells)
  PROVE  /\ Parse(cells)[i] \in 1 .. Len(cells)
         /\ cells[Parse(cells)[i]][1] = "size"
         /\ cells[Parse(cells)[i]][2] \in Nat
<1>1. PICK f : IsParse(f, cells) /\ Parse(cells) = f[1]
  BY ParseTable
<1> DEFINE n == Len(cells) + 1
           Right(k) == \A j \in DOMAIN f[k] : f[k][j] \in 1 .. Len(cells) /\ cells[f[k][j]][1] = "size"
           T == {k \in 1 .. n : Right(k)}
<1>2. n \in Nat /\ Len(cells) \in Nat
  BY SeqLength DEF IsBuffer
<1>3. ASSUME NEW k \in 1 .. n, \A j \in k + 1 .. n : j \in T PROVE k \in T
  <2>1. f[k] = Step(f, cells, k)
    BY <1>1 DEF IsParse
  <2>2. CASE f[k] = <<>>
    BY <2>2
  <2>3. CASE f[k] # <<>>
    <3>1. k < Len(cells) /\ cells[k + 1][1] = "size"
      BY <1>2, <2>1, <2>3 DEF Step
    <3>2. k + 1 \in 1 .. Len(cells)
      BY <1>2, <3>1
    <3>3. PICK m \in Nat : m = cells[k + 1][2]
      BY <3>1, <3>2 DEF IsBuffer
    <3>4. PICK rest : /\ rest = IF k + 2 + m > Len(cells) THEN <<>> ELSE f[k + 2 + m]
                      /\ f[k] = Inserted(rest, cells[k][2], k + 1)
      BY <2>1, <2>3, <3>3 DEF Step
    <3>5. \A j \in DOMAIN rest : rest[j] \in 1 .. Len(cells) /\ cells[rest[j]][1] = "size"
      <4>1. CASE k + 2 + m > Len(cells)
        BY <3>4, <4>1
      <4>2. CASE ~(k + 2 + m > Len(cells))
        <5>1. k + 2 + m \in k + 1 .. n /\ rest = f[k + 2 + m]
          BY <1>2, <3>4, <4>2
        <5>2. k + 2 + m \in T
          BY <1>3, <5>1
        <5>3. Right(k + 2 + m)
          BY <5>2
        <5> QED
          BY <5>1, <5>3
      <4> QED
        BY <4>1, <4>2
    <3>6. \A j \in DOMAIN f[k] : (j \in DOMAIN rest /\ f[k][j] = rest[j]) \/ f[k][j] = k + 1
      BY <3>4 DEF Inserted
    <3>7. Right(k)
      BY <3>1, <3>2, <3>5, <3>6
    <3> QED
      BY <3>7
  <2> QED
    BY <2>2, <2>3
<1>4. 1 \in T
  <2> HIDE DEF T
  <2>1. 1 \in 1 .. n
    BY <1>2
  <2> HIDE DEF n
  <2> QED
    BY <1>2, <1>3, <2>1, AllDownwards
<1>5. Right(1)
  BY <1>4
<1> QED
  BY <1>1, <1>5 DEF IsBuffer

LEMMA ParseOfNone == Parse(<<>>) = <<>>
<1>1. IsBuffer(<<>>)
  BY DEF IsBuffer, IsSeq
<1>2. PICK f : IsParse(f, <<>>) /\ Parse(<<>>) = f[1]
  BY <1>1, ParseTable
<1>3. f[1] = Step(f, <<>>, 1)
  BY <1>2 DEF IsParse
<1> QED
  BY <1>2, <1>3 DEF Step
\* Where the entries of the objects are in it.
LEMMA CollectPlaces ==
  ASSUME NEW objs, NEW n, EntriesAt(objs, n)
  PROVE  /\ Before(EntriesOf(objs), 1) = 0
         /\ Len(CollectOf(objs)) = Before(EntriesOf(objs), n + 1)
         /\ Len(CollectOf(objs)) \in Nat
         /\ \A k \in 1 .. n :
              LET v == objs[SetToSeq(DOMAIN objs)[k]]
                  o == Before(EntriesOf(objs), k)
              IN  /\ o \in Nat /\ Len(v) \in Nat
                  /\ Before(EntriesOf(objs), k + 1) = o + 2 + Len(v)
                  /\ o + 2 + Len(v) <= Len(CollectOf(objs))
                  /\ CollectOf(objs)[o + 1] = <<"id", SetToSeq(DOMAIN objs)[k]>>
                  /\ CollectOf(objs)[o + 2] = <<"size", Len(v)>>
                  /\ \A m \in 1 .. Len(v) : CollectOf(objs)[o + 2 + m] = v[m]
<1> DEFINE e == EntriesOf(objs)
           c == CollectOf(objs)
<1>1. IsPieces(e, n) /\ n \in Nat
  BY DEF EntriesAt
<1>2. /\ IsSeq(c) /\ Len(c) = Before(e, n + 1)
      /\ \A i \in 1 .. n : \A k \in 1 .. Len(e[i]) : c[Before(e, i) + k] = e[i][k]
  BY <1>1, FlattenIs DEF CollectOf
<1>3. /\ Before(e, 1) = 0
      /\ \A i \in 1 .. n : Before(e, i + 1) = Before(e, i) + Len(e[i])
      /\ \A i \in 1 .. n + 1 : Before(e, i) \in Nat
  BY <1>1, BeforeNext
<1>4. Len(c) \in Nat
  BY <1>2, SeqLength
<1>5. ASSUME NEW k \in 1 .. n, NEW i, i = SetToSeq(DOMAIN objs)[k],
             NEW o, o = Before(e, k), NEW v, v = objs[i]
      PROVE  /\ o \in Nat /\ Len(v) \in Nat
             /\ Before(e, k + 1) = o + 2 + Len(v)
             /\ o + 2 + Len(v) <= Len(c)
             /\ c[o + 1] = <<"id", i>>
             /\ c[o + 2] = <<"size", Len(v)>>
             /\ \A m \in 1 .. Len(v) : c[o + 2 + m] = v[m]
  <2>1. IsBuffer(v) /\ e[k] = Entry(i, v)
    BY <1>5 DEF EntriesAt
  <2>2. PICK w : w = e[k]
    OBVIOUS
  <2>3. /\ Len(v) \in Nat
        /\ Len(w) = Len(v) + 2
        /\ w[1] = <<"id", i>>
        /\ w[2] = <<"size", Len(v)>>
        /\ \A m \in 1 .. Len(v) : w[m + 2] = v[m]
    BY <2>1, <2>2, EntryIs
  <2>4. Before(e, k) + Len(e[k]) <= Before(e, n + 1)
    <3>1. n + 1 \in 1 .. n + 1 /\ k < n + 1
      BY <1>1
    <3> QED
      BY <1>1, <3>1, BeforeGrows
  <2> HIDE DEF c, e
  <2>5. o \in Nat
    <3>1. k \in 1 .. n + 1
      BY <1>1
    <3> QED
      BY <1>3, <1>5, <3>1
  <2>6. Before(e, k + 1) = o + Len(w)
    BY <1>3, <1>5, <2>2
  <2>7. o + Len(w) <= Len(c)
    BY <1>2, <1>5, <2>2, <2>4
  <2>8. \A m \in 1 .. Len(w) : c[o + m] = w[m]
    BY <1>2, <1>5, <2>2
  <2>9. 1 \in 1 .. Len(w) /\ 2 \in 1 .. Len(w)
    BY <2>3
  <2>10. ASSUME NEW m \in 1 .. Len(v) PROVE c[o + 2 + m] = v[m]
    <3>1. m + 2 \in 1 .. Len(w) /\ o + 2 + m = o + (m + 2)
      BY <2>3, <2>5
    <3> QED
      BY <2>3, <2>8, <3>1
  <2> QED
    BY <2>3, <2>5, <2>6, <2>7, <2>8, <2>9, <2>10
<1> HIDE DEF c, e
<1>6. ASSUME NEW k \in 1 .. n
      PROVE  LET v == objs[SetToSeq(DOMAIN objs)[k]]
                 o == Before(e, k)
             IN  /\ o \in Nat /\ Len(v) \in Nat
                 /\ Before(e, k + 1) = o + 2 + Len(v)
                 /\ o + 2 + Len(v) <= Len(c)
                 /\ c[o + 1] = <<"id", SetToSeq(DOMAIN objs)[k]>>
                 /\ c[o + 2] = <<"size", Len(v)>>
                 /\ \A m \in 1 .. Len(v) : c[o + 2 + m] = v[m]
  BY <1>5
<1> QED
  BY <1>2, <1>3, <1>4, <1>6 DEF c, e

\* In a buffer of objects, the size of each is found, one cell into its entry.
LEMMA ParseCollect ==
  ASSUME NEW objs, IsObjects(objs), NEW n, EntriesAt(objs, n)
  PROVE  /\ DOMAIN Parse(CollectOf(objs)) = DOMAIN objs
         /\ \A k \in 1 .. n :
              Parse(CollectOf(objs))[SetToSeq(DOMAIN objs)[k]] = Before(EntriesOf(objs), k) + 2
<1> DEFINE c == CollectOf(objs)
           id == SetToSeq(DOMAIN objs)
           B(k) == Before(EntriesOf(objs), k)
           L(k) == Len(objs[SetToSeq(DOMAIN objs)[k]])
<1>1. IsBuffer(c)
  BY CollectIsBuffer
<1>2. PICK f : IsParse(f, c) /\ Parse(c) = f[1]
  BY <1>1, ParseTable
<1>3. B(1) = 0 /\ Len(c) = B(n + 1) /\ Len(c) \in Nat
  BY CollectPlaces
<1>4. \A k \in 1 .. n : /\ B(k) \in Nat /\ L(k) \in Nat /\ B(k + 1) = B(k) + 2 + L(k)
                        /\ B(k) + 2 + L(k) <= Len(c)
                        /\ c[B(k) + 1] = <<"id", id[k]>> /\ c[B(k) + 2] = <<"size", L(k)>>
  BY CollectPlaces
<1>5. /\ n \in Nat
      /\ id \in [1 .. n -> DOMAIN objs]
      /\ \A a, b \in 1 .. n : id[a] = id[b] => a = b
      /\ \A x \in DOMAIN objs : \E a \in 1 .. n : id[a] = x
  BY DEF EntriesAt
<1> HIDE DEF c, id, B, L
<1>6. \A k \in 1 .. Len(c) + 1 : f[k] = Step(f, c, k)
  BY <1>2 DEF IsParse
<1> DEFINE Right(k) ==
             /\ DOMAIN f[B(k) + 1] = {id[j] : j \in k .. n}
             /\ \A j \in k .. n : f[B(k) + 1][id[j]] = B(j) + 2
           T == {k \in 1 .. n + 1 : Right(k)}
<1>7. f[B(n + 1) + 1] = <<>>
  <2>1. B(n + 1) + 1 \in 1 .. Len(c) + 1 /\ B(n + 1) + 1 >= Len(c)
    BY <1>3
  <2> QED
    BY <1>6, <2>1 DEF Step
<1>8. Right(n + 1)
  <2>1. n + 1 .. n = {} /\ DOMAIN <<>> = {}
    BY <1>5
  <2>2. {id[j] : j \in n + 1 .. n} = {}
    BY <2>1
  <2> QED
    BY <1>7, <2>1, <2>2
<1>9. ASSUME NEW k \in 1 .. n, Right(k + 1) PROVE Right(k)
  <2>1. PICK o \in Nat, m \in Nat : o = B(k) /\ m = L(k)
    BY <1>4
  <2>2. PICK next \in Nat : next = o + 3 + m
    OBVIOUS
  <2>3. B(k + 1) + 1 = next /\ o + 2 + m <= Len(c)
    BY <1>4, <2>1, <2>2
  <2>4. c[o + 1] = <<"id", id[k]>> /\ c[o + 2] = <<"size", m>>
    BY <1>4, <2>1
  <2>5. ~(o + 1 >= Len(c)) /\ (o + 1) + 1 = o + 2 /\ (o + 1) + 2 + m = next /\ o + 1 \in 1 .. Len(c) + 1
    BY <1>3, <2>2, <2>3
  <2>6. f[o + 1] = Step(f, c, o + 1)
    BY <1>6, <2>5
  <2>7. next > Len(c) => f[next] = <<>>
    <3>1. next \in 1 .. Len(c) + 1
      BY <1>3, <2>2, <2>3
    <3>2. next > Len(c) => next >= Len(c)
      BY <1>3
    <3> QED
      BY <1>6, <3>1, <3>2 DEF Step
  <2>8. f[o + 1] = Inserted(IF next > Len(c) THEN <<>> ELSE f[next], id[k], o + 2)
    <3>1. Step(f, c, o + 1) = Inserted(IF (o + 1) + 2 + c[(o + 1) + 1][2] > Len(c) THEN <<>>
                                       ELSE f[(o + 1) + 2 + c[(o + 1) + 1][2]], c[o + 1][2], (o + 1) + 1)
      BY <2>4, <2>5 DEF Step
    <3> QED
      BY <2>4, <2>5, <2>6, <3>1
  <2>9. PICK rest : rest = f[next]
    OBVIOUS
  <2>10. f[o + 1] = Inserted(rest, id[k], o + 2)
    BY <2>7, <2>8, <2>9
  <2>11. DOMAIN rest = {id[j] : j \in k + 1 .. n} /\ \A j \in k + 1 .. n : rest[id[j]] = B(j) + 2
    BY <1>9, <2>3, <2>9
  <2>12. id[k] \notin DOMAIN rest
    <3>1. \A j \in k + 1 .. n : j \in 1 .. n /\ j # k
      BY <1>5
    <3>2. \A j \in k + 1 .. n : id[j] # id[k]
      BY <1>5, <3>1
    <3> QED
      BY <2>11, <3>2
  <2>13. /\ DOMAIN f[o + 1] = DOMAIN rest \cup {id[k]}
         /\ \A j \in DOMAIN rest : f[o + 1][j] = rest[j]
         /\ f[o + 1][id[k]] = o + 2
    BY <2>10, <2>12 DEF Inserted
  <2>14. k .. n = (k + 1 .. n) \cup {k}
    BY <1>5
  <2>15. DOMAIN f[o + 1] = {id[j] : j \in k .. n}
    <3> HIDE DEF Right
    <3> QED
      BY <2>11, <2>13, <2>14
  <2>16. ASSUME NEW j \in k .. n PROVE f[o + 1][id[j]] = B(j) + 2
    <3>1. CASE j = k
      BY <2>1, <2>13, <3>1
    <3>2. CASE j # k
      <4>1. j \in k + 1 .. n
        BY <2>14, <3>2
      <4> QED
        BY <2>11, <2>13, <4>1
    <3> QED
      BY <3>1, <3>2
  <2> QED
    BY <2>1, <2>15, <2>16
<1>10. ASSUME NEW k \in 1 .. n + 1, \A j \in k + 1 .. n + 1 : j \in T PROVE k \in T
  <2>1. CASE k = n + 1
    BY <1>8, <2>1
  <2>2. CASE k # n + 1
    <3>1. k \in 1 .. n /\ k + 1 \in k + 1 .. n + 1
      BY <1>5, <2>2
    <3>2. Right(k + 1)
      BY <1>10, <3>1
    <3> HIDE DEF Right
    <3> QED
      BY <1>9, <3>1, <3>2
  <2> QED
    BY <2>1, <2>2
<1>11. 1 \in T
  <2> HIDE DEF T
  <2>1. 1 \in 1 .. n + 1 /\ n + 1 \in Nat
    BY <1>5
  <2>2. \A k \in 1 .. n + 1 : k \in T
    BY <1>10, <2>1, AllDownwards
  <2> QED
    BY <2>1, <2>2
<1>12. Right(1) /\ B(1) + 1 = 1
  BY <1>3, <1>11
<1>13. {id[j] : j \in 1 .. n} = DOMAIN objs
  <2>1. \A j \in 1 .. n : id[j] \in DOMAIN objs
    BY <1>5
  <2>2. \A x \in DOMAIN objs : \E a \in 1 .. n : id[a] = x
    BY <1>5
  <2> QED
    BY <2>1, <2>2
<1>14. DOMAIN Parse(c) = DOMAIN objs /\ \A k \in 1 .. n : Parse(c)[id[k]] = B(k) + 2
  BY <1>2, <1>12, <1>13
<1> QED
  BY <1>14 DEF c, id, B

\* What was collected is found again.
LEMMA ReadBack ==
  ASSUME NEW objs, IsObjects(objs)
  PROVE  Extracts(CollectOf(objs), Parse(CollectOf(objs))) = objs
<1> DEFINE c == CollectOf(objs)
           id == SetToSeq(DOMAIN objs)
           B(k) == Before(EntriesOf(objs), k)
<1>1. PICK n : EntriesAt(objs, n)
  BY EntriesAre
<1>2. /\ DOMAIN Parse(c) = DOMAIN objs
      /\ \A k \in 1 .. n : Parse(c)[id[k]] = B(k) + 2
  BY <1>1, ParseCollect
<1>3. /\ Len(c) \in Nat
      /\ \A k \in 1 .. n : /\ B(k) \in Nat /\ Len(objs[id[k]]) \in Nat
                           /\ B(k) + 2 + Len(objs[id[k]]) <= Len(c)
                           /\ c[B(k) + 2] = <<"size", Len(objs[id[k]])>>
                           /\ \A m \in 1 .. Len(objs[id[k]]) : c[B(k) + 2 + m] = objs[id[k]][m]
  BY <1>1, CollectPlaces
<1>4. \A x \in DOMAIN objs : \E a \in 1 .. n : id[a] = x
  BY <1>1 DEF EntriesAt
<1> HIDE DEF c, id, B
<1>5. ASSUME NEW i \in DOMAIN objs PROVE Extract(c, Parse(c)[i]) = objs[i]
  <2>1. PICK k \in 1 .. n : id[k] = i
    BY <1>4
  <2>2. PICK o \in Nat, m \in Nat : o = B(k) /\ m = Len(objs[i])
    BY <1>3, <2>1
  <2>3. PICK v : v = objs[i]
    OBVIOUS
  <2>4. Parse(c)[i] = o + 2
    BY <1>2, <2>1, <2>2
  <2>5. o + 2 + m <= Len(c) /\ c[o + 2][2] = m /\ \A j \in 1 .. m : c[o + 2 + j] = v[j]
    BY <1>3, <2>1, <2>2, <2>3
  <2>6. \A j \in 1 .. m : (o + 2) + j <= Len(c)
    BY <1>3, <2>5
  <2>7. Extract(c, o + 2) = [j \in 1 .. m |-> v[j]]
    BY <2>5, <2>6 DEF Extract
  <2>8. v = [j \in 1 .. m |-> v[j]]
    BY <2>2, <2>3 DEF IsObjects, IsBuffer, IsSeq
  <2> QED
    BY <2>2, <2>4, <2>7, <2>8, <2>3
<1>6. Extracts(c, Parse(c)) = [i \in DOMAIN objs |-> objs[i]]
  BY <1>2, <1>5 DEF Extracts
<1>7. Extracts(c, Parse(c)) = objs
  BY <1>6 DEF IsObjects
<1> QED
  BY <1>7 DEF c

----------------------------------------------------------------------------
(* Files.                                                                  *)

\* The greatest of some numbers.
LEMMA MaxIs ==
  ASSUME NEW n \in Nat, NEW S \in SUBSET (0 .. n), S # {}
  PROVE  Max(S) \in S /\ \A x \in S : x <= Max(S)
<1> DEFINE U == {m \in Nat : n - m \in S}
<1>1. PICK x \in S : TRUE
  OBVIOUS
<1>2. n - x \in U /\ U \in SUBSET Nat
  <2>1. n - x \in Nat /\ n - (n - x) = x
    BY <1>1
  <2> QED
    BY <2>1
<1>3. PICK m \in U : \A l \in U : m <= l
  <2> HIDE DEF U
  <2> QED
    BY <1>2, LeastNumber
<1>4. n - m \in S /\ m \in Nat
  BY <1>3
<1>5. ASSUME NEW y \in S PROVE n - m >= y
  <2>1. n - y \in Nat /\ n - (n - y) = y
    OBVIOUS
  <2>2. n - y \in U
    BY <2>1
  <2>3. m <= n - y
    BY <1>3, <2>2
  <2> QED
    BY <1>4, <2>1, <2>3
<1>6. \E z \in S : \A y \in S : z >= y
  BY <1>4, <1>5
<1>7. Max(S) \in S /\ \A y \in S : Max(S) >= y
  BY <1>6 DEF Max
<1>8. PICK y : y = Max(S)
  OBVIOUS
<1>9. y \in S /\ \A z \in S : z <= y
  BY <1>7, <1>8
<1> QED
  BY <1>8, <1>9

LEMMA MaxOfAll ==
  ASSUME NEW n \in Nat
  PROVE  Max((1 .. n) \cup {0}) = n
<1>1. (1 .. n) \cup {0} = 0 .. n /\ 0 .. n # {} /\ n \in 0 .. n /\ 0 .. n \in SUBSET (0 .. n)
  OBVIOUS
<1>2. PICK m : m = Max(0 .. n)
  OBVIOUS
<1>3. m \in 0 .. n /\ n <= m
  BY <1>1, <1>2, MaxIs
<1>4. m = n
  BY <1>3
<1> QED
  BY <1>1, <1>2, <1>4

\* d is what is in a file when the processes S have written their pieces: m of them,
\* the last of which was written.
BufferLayout(d, pieces, hole, S, m, w) ==
  /\ IsPieces(w, m)
  /\ d = FlattenSeq(w)
  /\ S \subseteq 1 .. m
  /\ \A p \in 1 .. m : w[p] = IF p \in S THEN pieces[p] ELSE [k \in 1 .. Len(pieces[p]) |-> hole]

LEMMA WrittenIs ==
  ASSUME NEW pieces, NEW n, IsPieces(pieces, n), NEW S \in SUBSET (1 .. n), NEW hole
  PROVE  \E m \in 0 .. n : \E w : BufferLayout(Written(pieces, hole, S), pieces, hole, S, m, w)
<1> DEFINE m == Max(S \cup {0})
           w == [p \in 1 .. m |-> IF p \in S THEN pieces[p] ELSE [k \in 1 .. Len(pieces[p]) |-> hole]]
<1>1. n \in Nat
  BY DEF IsPieces
<1>2. m \in 0 .. n /\ \A x \in S : x <= m
  <2>1. S \cup {0} \in SUBSET (0 .. n) /\ S \cup {0} # {}
    BY <1>1
  <2>2. Max(S \cup {0}) \in S \cup {0} /\ \A x \in S \cup {0} : x <= Max(S \cup {0})
    BY <1>1, <2>1, MaxIs
  <2> QED
    BY <2>1, <2>2
<1> HIDE DEF m
<1>3. \A p \in 1 .. m : IsSeq(w[p])
  <2> TAKE p \in 1 .. m
  <2>1. IsSeq(pieces[p]) /\ Len(pieces[p]) \in Nat
    BY <1>1, <1>2, SeqLength DEF IsPieces
  <2>2. IsSeq([k \in 1 .. Len(pieces[p]) |-> hole])
    <3>1. [k \in 1 .. Len(pieces[p]) |-> hole] \in Seq({hole})
      BY <2>1
    <3> QED
      BY <3>1 DEF IsSeq
  <2> QED
    BY <2>1, <2>2
<1>4. S \subseteq 1 .. m
  BY <1>1, <1>2
<1>5. Written(pieces, hole, S) = FlattenSeq(w)
  BY DEF Written, m
<1>6. IsPieces(w, m)
  <2>1. w = [p \in 1 .. m |-> w[p]]
    OBVIOUS
  <2>2. m \in Nat
    BY <1>1, <1>2
  <2> HIDE DEF w
  <2> QED
    BY <1>3, <2>1, <2>2 DEF IsPieces
<1>7. BufferLayout(Written(pieces, hole, S), pieces, hole, S, m, w)
  BY <1>4, <1>5, <1>6 DEF BufferLayout
<1> HIDE DEF w
<1> QED
  BY <1>2, <1>7

LEMMA WrittenByAll ==
  ASSUME NEW pieces, NEW n, IsPieces(pieces, n), NEW hole
  PROVE  Written(pieces, hole, 1 .. n) = FlattenSeq(pieces)
<1>1. n \in Nat /\ pieces = [p \in 1 .. n |-> pieces[p]]
  BY DEF IsPieces
<1>2. Max((1 .. n) \cup {0}) = n
  BY <1>1, MaxOfAll
<1>3. [p \in 1 .. Max((1 .. n) \cup {0}) |->
         IF p \in 1 .. n THEN pieces[p] ELSE [k \in 1 .. Len(pieces[p]) |-> hole]] = pieces
  BY <1>1, <1>2
<1> QED
  BY <1>3 DEF Written

\* Pieces of one cell each.
LEMMA FlattenSingles ==
  ASSUME NEW seqs, NEW n, IsPieces(seqs, n), \A p \in 1 .. n : Len(seqs[p]) = 1
  PROVE  FlattenSeq(seqs) = [p \in 1 .. n |-> seqs[p][1]]
<1>1. n \in Nat
  BY DEF IsPieces
<1>2. /\ Before(seqs, 1) = 0
      /\ \A i \in 1 .. n : Before(seqs, i + 1) = Before(seqs, i) + 1
  BY BeforeNext
<1>3. \A i \in 1 .. n + 1 : Before(seqs, i) = i - 1
  <2> DEFINE T == {m \in Nat : m <= n => Before(seqs, m + 1) = m}
  <2>1. 0 \in T
    BY <1>2
  <2>2. ASSUME NEW m \in T PROVE m + 1 \in T
    <3>1. CASE m + 1 <= n
      <4>1. m + 1 \in 1 .. n /\ Before(seqs, m + 1) = m
        BY <1>1, <3>1
      <4> QED
        BY <1>2, <4>1
    <3>2. CASE ~(m + 1 <= n)
      BY <3>2
    <3> QED
      BY <3>1, <3>2
  <2>3. T = Nat
    <3> HIDE DEF T
    <3>1. T \in SUBSET Nat
      BY DEF T
    <3> QED
      BY <2>1, <2>2, <3>1, AllNumbers
  <2>4. ASSUME NEW i \in 1 .. n + 1 PROVE Before(seqs, i) = i - 1
    <3>1. i - 1 \in Nat /\ i - 1 <= n /\ (i - 1) + 1 = i
      BY <1>1
    <3>2. i - 1 \in T
      BY <2>3, <3>1
    <3> QED
      BY <3>1, <3>2
  <2> QED
    BY <2>4
<1>4. /\ IsSeq(FlattenSeq(seqs))
      /\ Len(FlattenSeq(seqs)) = Before(seqs, n + 1)
      /\ \A i \in 1 .. n : \A k \in 1 .. Len(seqs[i]) :
           FlattenSeq(seqs)[Before(seqs, i) + k] = seqs[i][k]
  BY FlattenIs
<1>5. Len(FlattenSeq(seqs)) = n
  <2>1. n + 1 \in 1 .. n + 1
    BY <1>1
  <2> QED
    BY <1>1, <1>3, <1>4, <2>1
<1>6. \A i \in 1 .. n : FlattenSeq(seqs)[i] = seqs[i][1]
  <2> TAKE i \in 1 .. n
  <2>1. Before(seqs, i) = i - 1 /\ (i - 1) + 1 = i /\ 1 \in 1 .. Len(seqs[i])
    BY <1>1, <1>3
  <2> QED
    BY <1>4, <2>1
<1>7. PICK s : s = FlattenSeq(seqs)
  OBVIOUS
<1>8. s = [p \in 1 .. n |-> s[p]]
  BY <1>4, <1>5, <1>7 DEF IsSeq
<1> QED
  BY <1>6, <1>7, <1>8

----------------------------------------------------------------------------
(* What processes read.                                                    *)

AreObjects(o, n) == n \in Nat /\ \A p \in 1 .. n : IsObjects(o[p])

PieceOf(f, objs) == IF f \in Compressed THEN Compress(CollectOf(objs)) ELSE CollectOf(objs)
PiecesOf(f, o, n) == [p \in 1 .. n |-> PieceOf(f, o[p])]
SizesOf(f, o, n) == [p \in 1 .. n |-> << <<Len(CollectOf(o[p])), Len(PieceOf(f, o[p]))>> >>]

LEMMA ZLenIs == ASSUME NEW b, IsSeq(b) PROVE ZLen(b) \in Nat \ {0}
<1>1. Len(b) \in Nat
  BY SeqLength
<1>2. PICK n \in Nat : n = Len(b)
  BY <1>1
<1>3. n \div 2 + 1 \in Nat \ {0}
  OBVIOUS
<1> QED
  BY <1>2, <1>3 DEF ZLen

\* What is compressed is known by its first part.
LEMMA CompressIs ==
  ASSUME NEW b, IsSeq(b)
  PROVE  /\ IsSeq(Compress(b))
         /\ Len(Compress(b)) \in Nat \ {0}
         /\ \A k \in 1 .. Len(Compress(b)) : Compress(b)[k] = <<"zip", <<b, k>>>>
<1>1. PICK n \in Nat \ {0} : n = ZLen(b)
  BY ZLenIs
<1> DEFINE c == [k \in 1 .. n |-> <<"zip", <<b, k>>>>]
<1>2. Compress(b) = c
  BY <1>1 DEF Compress
<1>3. c \in Seq({<<"zip", <<b, k>>>> : k \in 1 .. n}) /\ Len(c) = n
  OBVIOUS
<1> QED
  BY <1>2, <1>3 DEF IsSeq

LEMMA UncompressIs ==
  ASSUME NEW b, IsSeq(b)
  PROVE  CanUncompress(Compress(b), Len(b)) /\ Uncompress(Compress(b), Len(b)) = b
<1>1. PICK c : c = Compress(b)
  OBVIOUS
<1>2. IsSeq(c) /\ Len(c) \in Nat \ {0} /\ c[1] = <<"zip", <<b, 1>>>>
  BY <1>1, CompressIs
<1>3. c # <<>> /\ c[1][1] = "zip" /\ c[1][2][1] = b
  BY <1>2, SeqLength
<1>4. Len(b) <= Len(b) /\ IsPrefix(c, c)
  BY <1>2, SeqLength DEF IsPrefix
<1>5. CanUncompress(c, Len(b))
  BY <1>1, <1>3, <1>4 DEF CanUncompress
<1> QED
  BY <1>1, <1>3, <1>5 DEF Uncompress

LEMMA PieceIs ==
  ASSUME NEW f, NEW objs, IsObjects(objs)
  PROVE  IsSeq(PieceOf(f, objs)) /\ Len(PieceOf(f, objs)) \in Nat /\ Len(CollectOf(objs)) \in Nat
<1>1. IsSeq(CollectOf(objs))
  BY CollectIsBuffer DEF IsBuffer
<1>2. IsSeq(PieceOf(f, objs))
  BY <1>1, CompressIs DEF PieceOf
<1> QED
  BY <1>1, <1>2, SeqLength

LEMMA PiecesAre ==
  ASSUME NEW f, NEW o, NEW n, AreObjects(o, n)
  PROVE  IsPieces(PiecesOf(f, o, n), n) /\ IsPieces(SizesOf(f, o, n), n)
<1>1. n \in Nat
  BY DEF AreObjects
<1>2. \A p \in 1 .. n : IsSeq(PieceOf(f, o[p])) /\ Len(PieceOf(f, o[p])) \in Nat /\ Len(CollectOf(o[p])) \in Nat
  BY PieceIs DEF AreObjects
<1>3. IsPieces(PiecesOf(f, o, n), n)
  BY <1>1, <1>2 DEF IsPieces, PiecesOf
<1>4. \A p \in 1 .. n : IsSeq(SizesOf(f, o, n)[p])
  <2> TAKE p \in 1 .. n
  <2>1. SizesOf(f, o, n)[p] \in Seq(Nat \X Nat)
    BY <1>2 DEF SizesOf
  <2> QED
    BY <2>1 DEF IsSeq
<1>5. IsPieces(SizesOf(f, o, n), n)
  BY <1>1, <1>4 DEF IsPieces, SizesOf
<1> QED
  BY <1>3, <1>5

\* Sizes that are on disk, of whatever save.
LEMMA SizesType ==
  ASSUME NEW f, NEW o, NEW n, AreObjects(o, n), NEW S \in SUBSET (1 .. n)
  PROVE  Written(SizesOf(f, o, n), <<0, 0>>, S) \in Seq(Nat \X Nat)
<1> DEFINE pieces == SizesOf(f, o, n)
<1>0. PICK m \in 0 .. n : \E w : BufferLayout(Written(pieces, <<0, 0>>, S), pieces, <<0, 0>>, S, m, w)
  BY PiecesAre, WrittenIs
<1>1. PICK w : BufferLayout(Written(pieces, <<0, 0>>, S), pieces, <<0, 0>>, S, m, w)
  BY <1>0
<1>2. n \in Nat /\ IsPieces(w, m) /\ Written(pieces, <<0, 0>>, S) = FlattenSeq(w)
  BY <1>1 DEF BufferLayout, AreObjects
<1>3. \A p \in 1 .. m : Len(w[p]) = 1 /\ w[p][1] \in Nat \X Nat
  <2> TAKE p \in 1 .. m
  <2>1. p \in 1 .. n
    BY <1>2
  <2>2. Len(PieceOf(f, o[p])) \in Nat /\ Len(CollectOf(o[p])) \in Nat
    BY <2>1, PieceIs DEF AreObjects
  <2>3. pieces[p] = << <<Len(CollectOf(o[p])), Len(PieceOf(f, o[p]))>> >>
    BY <2>1 DEF SizesOf
  <2>4. Len(pieces[p]) = 1 /\ pieces[p][1] \in Nat \X Nat
    BY <2>2, <2>3
  <2>5. w[p] = IF p \in S THEN pieces[p] ELSE [k \in 1 .. Len(pieces[p]) |-> <<0, 0>>]
    BY <1>1 DEF BufferLayout
  <2> HIDE DEF pieces
  <2>6. CASE p \in S
    BY <2>4, <2>5, <2>6
  <2>7. CASE p \notin S
    BY <2>4, <2>5, <2>7
  <2> QED
    BY <2>6, <2>7
<1>4. FlattenSeq(w) = [p \in 1 .. m |-> w[p][1]]
  BY <1>2, <1>3, FlattenSingles
<1>5. m \in Nat
  BY <1>2
<1> QED
  BY <1>2, <1>3, <1>4, <1>5

\* The sizes of a whole checkpoint.
LEMMA SizesAre ==
  ASSUME NEW f, NEW o, NEW n, AreObjects(o, n)
  PROVE  Written(SizesOf(f, o, n), <<0, 0>>, 1 .. n)
           = [p \in 1 .. n |-> <<Len(CollectOf(o[p])), Len(PieceOf(f, o[p]))>>]
<1>1. PICK pieces : pieces = SizesOf(f, o, n)
  OBVIOUS
<1>2. IsPieces(pieces, n)
  BY <1>1, PiecesAre
<1>3. Written(pieces, <<0, 0>>, 1 .. n) = FlattenSeq(pieces)
  BY <1>2, WrittenByAll
<1>4. \A p \in 1 .. n : /\ Len(pieces[p]) = 1
                        /\ pieces[p][1] = <<Len(CollectOf(o[p])), Len(PieceOf(f, o[p]))>>
  BY <1>1 DEF SizesOf
<1>5. FlattenSeq(pieces) = [p \in 1 .. n |-> pieces[p][1]]
  BY <1>2, <1>4, FlattenSingles
<1> QED
  BY <1>1, <1>3, <1>4, <1>5

\* A process reads the piece that begins where its sizes say.
Second(s) == [q \in 1 .. size |-> s[q][2]]

LEMMA ReadIs ==
  ASSUME NEW d, NEW s, NEW p
  PROVE  ReadOrdered(d, s, p) =
           [k \in 1 .. s[p][2] |-> IF SumBefore(Second(s), p) + k <= Len(d)
                                   THEN d[SumBefore(Second(s), p) + k] ELSE Junk]
BY DEF ReadOrdered, SumBefore, Sum, Second

\* As many processes as have saved find what they have saved.
LEMMA WholeIsRead ==
  ASSUME NEW f, NEW o, size \in Nat, AreObjects(o, size), NEW p \in 1 .. size,
         data[f] = Written(PiecesOf(f, o, size), Junk, 1 .. size),
         sizes[f] = Written(SizesOf(f, o, size), <<0, 0>>, 1 .. size)
  PROVE  /\ Len(sizes[f]) = size
         /\ f \in Compressed => CanUncompress(ReadOrdered(data[f], sizes[f], p), sizes[f][p][1])
         /\ Loaded(f, p) = CollectOf(o[p])
<1> DEFINE pieces == PiecesOf(f, o, size)
           s == sizes[f]
           d == data[f]
           b == CollectOf(o[p])
<1>1. IsPieces(pieces, size) /\ d = FlattenSeq(pieces)
  BY PiecesAre, WrittenByAll
<1>2. s = [q \in 1 .. size |-> <<Len(CollectOf(o[q])), Len(PieceOf(f, o[q]))>>]
  BY SizesAre
<1>3. \A q \in 1 .. size : pieces[q] = PieceOf(f, o[q]) /\ Len(pieces[q]) \in Nat
  BY PieceIs DEF PiecesOf, AreObjects
<1>4. Second(s) = Lens(pieces)
  <2>1. \A q \in 1 .. size : s[q][2] = Len(pieces[q])
    BY <1>2, <1>3
  <2>2. DOMAIN pieces = 1 .. size
    BY DEF PiecesOf
  <2> HIDE DEF s, pieces
  <2> QED
    BY <2>1, <2>2 DEF Second, Lens
<1>5. IsSeq(b) /\ s[p] = <<Len(b), Len(pieces[p])>> /\ Len(s) = size
  <2>1. IsObjects(o[p])
    BY DEF AreObjects
  <2>2. IsSeq(b)
    BY <2>1, CollectIsBuffer DEF IsBuffer
  <2> QED
    BY <1>2, <1>3, <2>2
<1>6. /\ Len(d) = Before(pieces, size + 1)
      /\ \A i \in 1 .. size : \A k \in 1 .. Len(pieces[i]) : d[Before(pieces, i) + k] = pieces[i][k]
  BY <1>1, FlattenIs
<1>7. /\ Before(pieces, p) + Len(pieces[p]) <= Before(pieces, size + 1)
      /\ Before(pieces, p) \in Nat /\ Before(pieces, size + 1) \in Nat
  <2>1. size + 1 \in 1 .. size + 1 /\ p < size + 1 /\ p \in 1 .. size + 1
    OBVIOUS
  <2> QED
    BY <1>1, <2>1, BeforeGrows, BeforeNext
<1>8. pieces[p] = [k \in 1 .. Len(pieces[p]) |-> pieces[p][k]]
  <2>1. PICK w : w = pieces[p] /\ IsSeq(w)
    BY <1>1 DEF IsPieces
  <2> QED
    BY <2>1 DEF IsSeq
<1>9. ReadOrdered(d, s, p) = pieces[p]
  <2>1. ReadOrdered(d, s, p) =
           [k \in 1 .. s[p][2] |-> IF SumBefore(Second(s), p) + k <= Len(d)
                                   THEN d[SumBefore(Second(s), p) + k] ELSE Junk]
    BY ReadIs
  <2>2. s[p][2] = Len(pieces[p]) /\ SumBefore(Second(s), p) = Before(pieces, p)
    BY <1>4, <1>5 DEF Before
  <2>3. \A k \in 1 .. Len(pieces[p]) : Before(pieces, p) + k <= Len(d) /\ d[Before(pieces, p) + k] = pieces[p][k]
    BY <1>3, <1>6, <1>7
  <2> HIDE DEF s, d, pieces
  <2>4. PICK n, b0, w : n = Len(pieces[p]) /\ b0 = Before(pieces, p) /\ w = pieces[p]
    OBVIOUS
  <2>5. ReadOrdered(d, s, p) = [k \in 1 .. n |-> IF b0 + k <= Len(d) THEN d[b0 + k] ELSE Junk]
    BY <2>1, <2>2, <2>4
  <2>6. \A k \in 1 .. n : b0 + k <= Len(d) /\ d[b0 + k] = w[k]
    BY <2>3, <2>4
  <2>7. w = [k \in 1 .. n |-> w[k]]
    BY <1>8, <2>4
  <2> QED
    BY <2>4, <2>5, <2>6, <2>7
<1>10. CASE f \in Compressed
  <2>1. pieces[p] = Compress(b)
    BY <1>3, <1>10 DEF PieceOf
  <2>2. s[p][1] = Len(b)
    BY <1>5
  <2> HIDE DEF s, d, pieces, b
  <2>3. CanUncompress(ReadOrdered(d, s, p), s[p][1]) /\ Uncompress(ReadOrdered(d, s, p), s[p][1]) = b
    BY <1>5, <1>9, <2>1, <2>2, UncompressIs
  <2> QED
    BY <1>5, <1>10, <2>3 DEF Loaded, s, d, b
<1>11. CASE f \notin Compressed
  <2>1. pieces[p] = b
    BY <1>3, <1>11 DEF PieceOf
  <2> HIDE DEF pieces, b
  <2> QED
    BY <1>5, <1>9, <1>11, <2>1 DEF Loaded, s, d, b
<1> QED
  BY <1>10, <1>11

\* What a process may read of a plain file is a buffer, even from a torn one.
LEMMA PlainIsBuffer ==
  ASSUME NEW f, f \notin Compressed, NEW o, NEW n, AreObjects(o, n), NEW S \in SUBSET (1 .. n),
         NEW s \in Seq(Nat \X Nat), Len(s) = size, NEW p \in 1 .. size,
         NEW d, d = Written(PiecesOf(f, o, n), Junk, S)
  PROVE  IsBuffer(ReadOrdered(d, s, p))
<1> DEFINE pieces == PiecesOf(f, o, n)
<1>0. PICK m \in 0 .. n : \E w : BufferLayout(d, pieces, Junk, S, m, w)
  BY PiecesAre, WrittenIs
<1>1. PICK w : BufferLayout(d, pieces, Junk, S, m, w)
  BY <1>0
<1>2. n \in Nat /\ m \in Nat /\ IsPieces(w, m) /\ d = FlattenSeq(w)
  BY <1>1 DEF BufferLayout, AreObjects
<1>3. Junk[1] # "size"
  BY DEF Junk
<1>4. ASSUME NEW q \in 1 .. m, NEW k \in 1 .. Len(w[q])
      PROVE  w[q][k][1] = "size" => w[q][k][2] \in Nat
  <2>1. q \in 1 .. n
    BY <1>2
  <2>2. pieces[q] = CollectOf(o[q]) /\ IsBuffer(pieces[q])
    BY <2>1, CollectIsBuffer DEF PiecesOf, PieceOf, AreObjects
  <2>3. w[q] = IF q \in S THEN pieces[q] ELSE [j \in 1 .. Len(pieces[q]) |-> Junk]
    BY <1>1 DEF BufferLayout
  <2> HIDE DEF pieces
  <2>4. CASE q \in S
    BY <2>2, <2>3, <2>4 DEF IsBuffer
  <2>5. CASE q \notin S
    <3>1. PICK l \in Nat : l = Len(pieces[q])
      BY <2>2, SeqLength DEF IsBuffer
    <3>2. w[q] = [j \in 1 .. l |-> Junk] /\ Len(w[q]) = l
      BY <2>3, <2>5, <3>1
    <3>3. w[q][k] = Junk
      BY <3>2
    <3> QED
      BY <1>3, <3>3
  <2> QED
    BY <2>4, <2>5
<1>5. IsSeq(d) /\ Len(d) = Before(w, m + 1)
      /\ \A i \in 1 .. m : \A k \in 1 .. Len(w[i]) : d[Before(w, i) + k] = w[i][k]
  <2>1. Joins(d, w, m)
    BY <1>2, FlattenJoins
  <2> QED
    BY <2>1 DEF Joins
<1>6. ASSUME NEW j \in 1 .. Len(d) PROVE d[j][1] = "size" => d[j][2] \in Nat
  <2>1. PICK i \in 1 .. m : \E k \in 1 .. Len(w[i]) : j = Before(w, i) + k
    <3>1. j \in 1 .. Before(w, m + 1)
      BY <1>5
    <3>2. IsPieces(w, m)
      BY <1>2
    <3>3. InSomePiece(w, m, j)
      BY <3>1, <3>2, PieceAt
    <3> QED
      BY <3>3 DEF InSomePiece
  <2>2. PICK k \in 1 .. Len(w[i]) : j = Before(w, i) + k
    BY <2>1
  <2>3. d[j] = w[i][k]
    BY <1>5, <2>2
  <2> QED
    BY <1>4, <2>3
<1>7. PICK l \in Nat, b0 \in Nat : l = s[p][2] /\ b0 = SumBefore(Second(s), p)
  <2>1. size \in Nat /\ \A q \in 1 .. size : Second(s)[q] \in Nat
    BY DEF Second
  <2>2. p \in 1 .. size + 1
    BY <2>1
  <2>3. s[p][2] \in Nat
    OBVIOUS
  <2> QED
    BY <2>1, <2>2, <2>3, SumBeforeNext
<1> DEFINE r == [k \in 1 .. l |-> IF b0 + k <= Len(d) THEN d[b0 + k] ELSE Junk]
<1>8. ReadOrdered(d, s, p) = r
  BY <1>7, ReadIs
<1>9. IsSeq(r) /\ Len(r) = l
  <2>1. r = [k \in 1 .. l |-> r[k]]
    OBVIOUS
  <2> HIDE DEF r
  <2> QED
    BY <2>1, FunctionIsSeq
<1>10. ASSUME NEW k \in 1 .. l PROVE r[k][1] = "size" => r[k][2] \in Nat
  <2>1. CASE b0 + k <= Len(d)
    <3>1. b0 + k \in 1 .. Len(d) /\ r[k] = d[b0 + k]
      BY <2>1
    <3> HIDE DEF r
    <3> QED
      BY <1>6, <3>1
  <2>2. CASE ~(b0 + k <= Len(d))
    <3>1. r[k] = Junk
      BY <2>2
    <3> HIDE DEF r
    <3> QED
      BY <1>3, <3>1
  <2> QED
    BY <2>1, <2>2
<1> HIDE DEF r
<1> QED
  BY <1>8, <1>9, <1>10 DEF IsBuffer

\* A process that may go on after it has read a compressed file has the whole piece of
\* some process, that begins where it has read.
Found(f, o, s, p, S, m, w, q) ==
  /\ q \in 1 .. m /\ q \in S
  /\ Loaded(f, p) = CollectOf(o[q])
  /\ SumBefore(Second(s), p) = Before(w, q)
  /\ s[p][2] \in Nat \ {0}

LEMMA CompressedIsRead ==
  ASSUME NEW f \in Compressed, NEW o, NEW n, AreObjects(o, n), NEW S \in SUBSET (1 .. n),
         NEW m \in 0 .. n, NEW w, BufferLayout(data[f], PiecesOf(f, o, n), Junk, S, m, w),
         NEW s \in Seq(Nat \X Nat), s = sizes[f], Len(s) = size, NEW p \in 1 .. size,
         CanUncompress(ReadOrdered(data[f], s, p), s[p][1])
  PROVE  \E q : Found(f, o, s, p, S, m, w, q)
<1> DEFINE pieces == PiecesOf(f, o, n)
           d == data[f]
<1>1. n \in Nat /\ m \in Nat /\ IsPieces(w, m) /\ d = FlattenSeq(w)
  BY DEF BufferLayout, AreObjects
<1>2. PICK l \in Nat, b0 \in Nat : l = s[p][2] /\ b0 = SumBefore(Second(s), p)
  <2>1. size \in Nat /\ \A q \in 1 .. size : Second(s)[q] \in Nat
    BY DEF Second
  <2>2. p \in 1 .. size + 1
    BY <2>1
  <2>3. s[p][2] \in Nat
    OBVIOUS
  <2> QED
    BY <2>1, <2>2, <2>3, SumBeforeNext
<1>3. PICK cells : cells = ReadOrdered(d, s, p)
  OBVIOUS
<1>4. cells = [k \in 1 .. l |-> IF b0 + k <= Len(d) THEN d[b0 + k] ELSE Junk]
  BY <1>2, <1>3, ReadIs
<1>5. PICK whole : /\ whole = cells[1][2][1] /\ cells # <<>> /\ cells[1][1] = "zip"
                   /\ IsPrefix(Compress(whole), cells)
                   /\ Loaded(f, p) = whole
  BY <1>3 DEF CanUncompress, Loaded, Uncompress
<1>6. l \in Nat \ {0}
  <2>1. l # 0
    BY <1>4, <1>5
  <2> QED
    BY <2>1
<1>7. cells[1] = d[b0 + 1] /\ b0 + 1 <= Len(d)
  <2>1. Junk[1] # "zip"
    BY DEF Junk
  <2>2. cells[1] = IF b0 + 1 <= Len(d) THEN d[b0 + 1] ELSE Junk
    BY <1>4, <1>6
  <2> QED
    BY <1>5, <2>1, <2>2
<1>8. /\ Len(d) = Before(w, m + 1)
      /\ \A i \in 1 .. m : \A k \in 1 .. Len(w[i]) : d[Before(w, i) + k] = w[i][k]
  <2>1. Joins(d, w, m)
    BY <1>1, FlattenJoins
  <2> QED
    BY <2>1 DEF Joins
<1>9. PICK q \in 1 .. m : \E k \in 1 .. Len(w[q]) : b0 + 1 = Before(w, q) + k
  <2>1. Before(w, m + 1) \in Nat
    <3>1. m + 1 \in 1 .. m + 1
      BY <1>1
    <3> QED
      BY <1>1, <3>1, BeforeNext
  <2>2. b0 + 1 \in 1 .. Before(w, m + 1)
    BY <1>7, <1>8, <2>1
  <2>3. IsPieces(w, m)
    BY <1>1
  <2>4. InSomePiece(w, m, b0 + 1)
    BY <2>2, <2>3, PieceAt
  <2> QED
    BY <2>4 DEF InSomePiece
<1>10. PICK k \in 1 .. Len(w[q]) : b0 + 1 = Before(w, q) + k
  BY <1>9
<1>11. cells[1] = w[q][k] /\ k \in Nat
  <2>1. Len(w[q]) \in Nat
    BY <1>1, SeqLength DEF IsPieces
  <2> QED
    BY <1>7, <1>8, <1>10, <2>1
<1>12. q \in 1 .. n /\ w[q] = IF q \in S THEN pieces[q] ELSE [j \in 1 .. Len(pieces[q]) |-> Junk]
  <2> HIDE DEF pieces, d
  <2>1. q \in 1 .. n
    BY <1>1
  <2>2. w[q] = IF q \in S THEN pieces[q] ELSE [j \in 1 .. Len(pieces[q]) |-> Junk]
    BY DEF BufferLayout, pieces
  <2> QED
    BY <2>1, <2>2
<1>13. PICK b : b = CollectOf(o[q]) /\ IsSeq(b) /\ pieces[q] = Compress(b)
  BY <1>12, CollectIsBuffer DEF PiecesOf, PieceOf, AreObjects, IsBuffer
<1> HIDE DEF pieces, d
<1>14. /\ IsSeq(Compress(b)) /\ Len(Compress(b)) \in Nat \ {0}
       /\ \A j \in 1 .. Len(Compress(b)) : Compress(b)[j] = <<"zip", <<b, j>>>>
  BY <1>13, CompressIs
<1>15. q \in S
  <2> SUFFICES ASSUME q \notin S PROVE FALSE
    OBVIOUS
  <2>1. PICK a \in Nat : a = Len(pieces[q])
    BY <1>13, <1>14
  <2>2. w[q] = [j \in 1 .. a |-> Junk] /\ Len(w[q]) = a
    BY <1>12, <2>1
  <2>3. w[q][k] = Junk
    BY <2>2
  <2> QED
    BY <1>5, <1>11, <2>3 DEF Junk
<1>16. cells[1] = <<"zip", <<b, k>>>>
  <2>1. w[q] = Compress(b)
    BY <1>12, <1>13, <1>15
  <2> QED
    BY <1>11, <1>14, <2>1
<1>17. whole = b
  BY <1>5, <1>16
<1>18. Compress(b)[1] = cells[1]
  <2>1. PICK c, a : c = Compress(b) /\ a = Len(c)
    OBVIOUS
  <2>2. a <= Len(cells) /\ SubSeq(c, 1, a) = SubSeq(cells, 1, a)
    BY <1>5, <1>17, <2>1 DEF IsPrefix
  <2>3. a \in Nat \ {0} /\ IsSeq(c) /\ IsSeq(cells)
    <3>1. cells = [j \in 1 .. l |-> cells[j]]
      BY <1>4
    <3>2. IsSeq(cells)
      BY <3>1, FunctionIsSeq
    <3> QED
      BY <1>14, <2>1, <3>2
  <2>4. SubSeq(c, 1, a)[1] = c[1]
    <3>1. PICK U : c \in Seq(U)
      BY <2>3 DEF IsSeq
    <3> QED
      BY <2>1, <2>3, <3>1
  <2>5. SubSeq(cells, 1, a)[1] = cells[1]
    <3>1. PICK U : cells \in Seq(U)
      BY <2>3 DEF IsSeq
    <3> QED
      BY <2>2, <2>3, <3>1
  <2> QED
    BY <2>1, <2>2, <2>4, <2>5
<1>19. k = 1
  <2>1. Compress(b)[1] = <<"zip", <<b, 1>>>>
    BY <1>14
  <2> QED
    BY <1>16, <1>18, <2>1
<1>20. b0 = Before(w, q)
  <2>1. Before(w, q) \in Nat
    <3>1. q \in 1 .. m + 1
      BY <1>1
    <3> QED
      BY <1>1, <3>1, BeforeNext
  <2> QED
    BY <1>10, <1>19, <2>1
<1>21. Found(f, o, s, p, S, m, w, q)
  BY <1>2, <1>5, <1>6, <1>13, <1>15, <1>17, <1>20 DEF Found
<1> QED
  BY <1>21

\* When all may go on, and at least as many read as have saved, each has its own piece.
LEMMA TornIsRead ==
  ASSUME NEW f \in Compressed, NEW o, NEW n, AreObjects(o, n), NEW S \in SUBSET (1 .. n),
         data[f] = Written(PiecesOf(f, o, n), Junk, S),
         sizes[f] \in Seq(Nat \X Nat), Len(sizes[f]) = size, n <= size,
         \A p \in 1 .. size : CanUncompress(ReadOrdered(data[f], sizes[f], p), sizes[f][p][1])
  PROVE  \A p \in 1 .. size : p \in 1 .. n /\ Loaded(f, p) = CollectOf(o[p])
<1> DEFINE s == sizes[f]
<1>0. PICK m \in 0 .. n : \E w : BufferLayout(data[f], PiecesOf(f, o, n), Junk, S, m, w)
  BY PiecesAre, WrittenIs
<1>1. PICK w : BufferLayout(data[f], PiecesOf(f, o, n), Junk, S, m, w)
  BY <1>0
<1>2. n \in Nat /\ m \in Nat /\ m <= n /\ IsPieces(w, m) /\ size \in Nat
  BY <1>1 DEF BufferLayout, AreObjects
<1>3. \A p \in 1 .. size : \E q : Found(f, o, s, p, S, m, w, q)
  BY <1>1, CompressedIsRead
<1> DEFINE own == [p \in 1 .. size |-> CHOOSE q : Found(f, o, s, p, S, m, w, q)]
<1>4. \A p \in 1 .. size : Found(f, o, s, p, S, m, w, own[p])
  BY <1>3
<1> HIDE DEF own
<1>5. \A p \in 1 .. size : own[p] \in 1 .. m
  BY <1>4 DEF Found
<1>6. ASSUME NEW p \in 1 .. size, p + 1 \in 1 .. size PROVE own[p] < own[p + 1]
  <2>1. \A q \in 1 .. size : Second(s)[q] \in Nat /\ Second(s)[q] = s[q][2]
    BY DEF Second
  <2>2. SumBefore(Second(s), p + 1) = SumBefore(Second(s), p) + s[p][2] /\ SumBefore(Second(s), p) \in Nat
    <3>1. PICK v : v = Second(s)
      OBVIOUS
    <3>2. p \in 1 .. size + 1 /\ \A q \in 1 .. size : v[q] \in Nat
      BY <1>2, <2>1, <3>1
    <3>3. SumBefore(v, p + 1) = SumBefore(v, p) + v[p] /\ SumBefore(v, p) \in Nat
      BY <1>2, <3>2, SumBeforeNext
    <3> QED
      BY <2>1, <3>1, <3>3
  <2>3. Before(w, own[p]) < Before(w, own[p + 1]) /\ Before(w, own[p]) \in Nat
    <3>1. SumBefore(Second(s), p) = Before(w, own[p]) /\ s[p][2] \in Nat \ {0}
      BY <1>4 DEF Found
    <3>2. SumBefore(Second(s), p + 1) = Before(w, own[p + 1])
      BY <1>4, <1>6 DEF Found
    <3> HIDE DEF s
    <3> QED
      BY <2>2, <3>1, <3>2
  <2>4. PICK a \in 1 .. m, b \in 1 .. m : a = own[p] /\ b = own[p + 1]
    BY <1>5, <1>6
  <2>5. CASE b < a
    <3>1. a \in 1 .. m + 1 /\ b \in 1 .. m + 1
      BY <1>2
    <3>2. Before(w, b) + Len(w[b]) <= Before(w, a) /\ Len(w[b]) \in Nat /\ Before(w, b) \in Nat /\ Before(w, a) \in Nat
      BY <1>2, <2>5, <3>1, BeforeGrows, BeforeNext
    <3> QED
      BY <2>3, <2>4, <3>2
  <2>6. CASE b = a
    BY <2>3, <2>4, <2>6
  <2> QED
    BY <2>4, <2>5, <2>6
<1>7. \A p \in 1 .. size : own[p] >= p
  <2> DEFINE T == {k \in Nat : k + 1 <= size => own[k + 1] >= k + 1}
  <2>1. 0 \in T
    <3>1. 1 <= size => own[1] >= 1
      BY <1>2, <1>5
    <3> QED
      BY <3>1
  <2>2. ASSUME NEW k \in T PROVE k + 1 \in T
    <3> SUFFICES ASSUME (k + 1) + 1 <= size PROVE own[(k + 1) + 1] >= (k + 1) + 1
      OBVIOUS
    <3>1. PICK p \in Nat : p = k + 1
      OBVIOUS
    <3>2. p \in 1 .. size /\ p + 1 \in 1 .. size /\ own[p] >= p
      BY <1>2, <3>1
    <3>3. own[p] < own[p + 1] /\ own[p] \in 1 .. m /\ own[p + 1] \in 1 .. m
      BY <1>5, <1>6, <3>2
    <3> QED
      BY <1>2, <3>1, <3>2, <3>3
  <2>3. T = Nat
    <3> HIDE DEF T
    <3>1. T \in SUBSET Nat
      BY DEF T
    <3> QED
      BY <2>1, <2>2, <3>1, AllNumbers
  <2>4. ASSUME NEW p \in 1 .. size PROVE own[p] >= p
    <3>1. p - 1 \in Nat /\ p <= size /\ (p - 1) + 1 = p
      BY <1>2
    <3>2. p - 1 \in T
      BY <2>3, <3>1
    <3> QED
      BY <3>1, <3>2
  <2> QED
    BY <2>4
<1>8. \A p \in 1 .. size : own[p] <= p
  <2> DEFINE T == {p \in 1 .. size : own[p] <= p}
  <2>1. ASSUME NEW p \in 1 .. size, \A j \in p + 1 .. size : j \in T PROVE p \in T
    <3>1. CASE p = size
      BY <1>2, <1>5, <3>1
    <3>2. CASE p # size
      <4>1. p + 1 \in p + 1 .. size /\ p + 1 \in 1 .. size
        BY <1>2, <3>2
      <4>2. own[p + 1] <= p + 1
        BY <2>1, <4>1
      <4>3. own[p] < own[p + 1] /\ own[p] \in 1 .. m /\ own[p + 1] \in 1 .. m
        BY <1>5, <1>6, <4>1
      <4>4. own[p] <= p
        BY <1>2, <4>2, <4>3
      <4> QED
        BY <4>4
    <3> QED
      BY <3>1, <3>2
  <2> HIDE DEF T
  <2>2. \A p \in 1 .. size : p \in T
    BY <1>2, <2>1, AllDownwards
  <2> QED
    BY <2>2 DEF T
<1>9. ASSUME NEW p \in 1 .. size PROVE p \in 1 .. n /\ Loaded(f, p) = CollectOf(o[p])
  <2>1. own[p] = p
    BY <1>2, <1>5, <1>7, <1>8
  <2>2. own[p] \in 1 .. m /\ Loaded(f, p) = CollectOf(o[own[p]])
    BY <1>4, <1>5 DEF Found
  <2> QED
    BY <1>2, <2>1, <2>2
<1> QED
  BY <1>9

----------------------------------------------------------------------------
(* The inductive invariant.                                                *)

\* What a process has: its objects, of which some are registered.
HasObjects(content, obj, reg) ==
  /\ obj = [i \in DOMAIN content |-> obj[i]]
  /\ \A i \in DOMAIN content : IsBuffer(obj[i])
  /\ IsFiniteSet(reg) /\ reg \subseteq DOMAIN content

\* What it has read, and where that comes from.
HasInput(in, off, org) ==
  /\ in \in {NoInput, Input(in.cells)}
  /\ IsBuffer(in.cells)
  /\ off = Parse(in.cells)
  /\ in.loaded => org.kind \in {"checkpoint", "torn"}
  /\ ~in.loaded => org = Nothing
  /\ org.kind = "checkpoint" =>
       org = [kind |-> "checkpoint", objects |-> org.objects]
       /\ (Zlib => Extracts(in.cells, off) = org.objects)
  /\ org.kind = "torn" /\ org.objects # <<>> => Extracts(in.cells, off) = org.objects

\* What it has in a stream.
HasStream(st, own) ==
  IF st.loaded
  THEN /\ st.cells = CollectOf(own.objects) /\ IsObjects(own.objects)
       /\ own = [kind |-> "checkpoint", objects |-> own.objects]
  ELSE own = Nothing

\* What is on disk: pieces of the last save, and sizes of this one or another.
IsFile(f, d, s, r) ==
  /\ r = [whole |-> r.whole, size |-> r.size, objects |-> r.objects]
  /\ r.whole \in BOOLEAN
  /\ AreObjects(r.objects, r.size)
  /\ s \in Seq(Nat \X Nat)
  /\ \E S \in SUBSET (1 .. r.size) : d = Written(PiecesOf(f, r.objects, r.size), Junk, S)
  /\ r.whole => /\ r.size # 0
                /\ d = Written(PiecesOf(f, r.objects, r.size), Junk, 1 .. r.size)
                /\ s = Written(SizesOf(f, r.objects, r.size), <<0, 0>>, 1 .. r.size)

Snapshots == [p \in 1 .. size |-> Snapshot(p).objects]

\* What is being saved is what the processes have now.
IsSaving(f) ==
  /\ f \in File
  /\ ~saved[f].whole /\ saved[f].size = size /\ saved[f].objects = Snapshots
  /\ job.at \in {"between", "sizes"} =>
       data[f] = Written(PiecesOf(f, Snapshots, size), Junk, 1 .. size)

Objects ==
  /\ object = [p \in Proc |-> object[p]] /\ registered = [p \in Proc |-> registered[p]]
  /\ \A p \in Proc : HasObjects(MayHold[p], object[p], registered[p])
Inputs ==
  /\ input = [p \in Proc |-> input[p]] /\ offset = [p \in Proc |-> offset[p]]
  /\ provenance = [p \in Proc |-> provenance[p]]
  /\ \A p \in Proc : HasInput(input[p], offset[p], provenance[p])
Streams ==
  /\ stream = [p \in Proc |-> stream[p]] /\ streamed = [p \in Proc |-> streamed[p]]
  /\ \A p \in Proc : HasStream(stream[p], streamed[p])
Files ==
  /\ data = [f \in File |-> data[f]] /\ sizes = [f \in File |-> sizes[f]]
  /\ saved = [f \in File |-> saved[f]]
  /\ \A f \in File : IsFile(f, data[f], sizes[f], saved[f])
Saving ==
  \/ job.at = "run"
  \/ job.at \in {"data", "between", "sizes"} /\ IsSaving(job.file)

Kept == size \in Sizes /\ Objects /\ Inputs /\ Streams /\ Files /\ Saving

\* The processes of the job.
LEMMA SizeIs == ASSUME size \in Sizes PROVE size \in Nat \ {0} /\ \A p \in Proc : p <= size => p \in 1 .. size
BY CheckpointAssumption DEF Proc

LEMMA InProc == ASSUME size \in Sizes PROVE \A p \in 1 .. size : p \in Proc
<1>1. \A n \in Sizes : n <= Max(Sizes) /\ n \in Nat /\ Max(Sizes) \in Nat
  <2>1. IsFiniteSet(Sizes) /\ Sizes # {} /\ Sizes \subseteq Nat
    BY CheckpointAssumption
  <2>2. PICK n \in Nat : \A x \in Sizes : x <= n
    BY <2>1, FiniteIsBounded
  <2>3. Sizes \in SUBSET (0 .. n)
    BY <2>1, <2>2
  <2> QED
    BY <2>1, <2>2, <2>3, MaxIs
<1> QED
  BY <1>1 DEF Proc

LEMMA BytesAreBuffer ==
  ASSUME NEW p \in Proc, NEW i \in DOMAIN MayHold[p], NEW v \in MayHold[p][i]
  PROVE  IsBuffer(Bytes(v))
<1>1. v \in Seq(Nat)
  BY CheckpointAssumption DEF Proc
<1>2. PICK n \in Nat : n = Len(v)
  BY <1>1
<1> DEFINE b == [k \in 1 .. n |-> <<"byte", v[k]>>]
<1>3. b = [k \in 1 .. n |-> b[k]] /\ \A k \in 1 .. n : b[k][1] = "byte"
  OBVIOUS
<1>4. Bytes(v) = b
  BY <1>2 DEF Bytes
<1> HIDE DEF b
<1>5. IsSeq(b) /\ Len(b) = n
  BY <1>3, FunctionIsSeq
<1> QED
  BY <1>3, <1>4, <1>5 DEF IsBuffer

LEMMA NewObjectsAre ==
  /\ NewObjects = [p \in Proc |-> NewObjects[p]]
  /\ \A p \in Proc : HasObjects(MayHold[p], NewObjects[p], {})
<1>1. NewObjects = [p \in Proc |-> NewObjects[p]]
  BY DEF NewObjects
<1>2. ASSUME NEW p \in Proc PROVE HasObjects(MayHold[p], NewObjects[p], {})
  <2>1. NewObjects[p] = [i \in DOMAIN MayHold[p] |-> Bytes(CHOOSE v \in MayHold[p][i] : TRUE)]
    BY DEF NewObjects
  <2>2. \A i \in DOMAIN MayHold[p] : (CHOOSE v \in MayHold[p][i] : TRUE) \in MayHold[p][i]
    BY CheckpointAssumption DEF Proc
  <2>3. ASSUME NEW i \in DOMAIN MayHold[p] PROVE IsBuffer(NewObjects[p][i])
    <3>1. PICK v \in MayHold[p][i] : NewObjects[p][i] = Bytes(v)
      BY <2>1, <2>2
    <3> QED
      BY <3>1, BytesAreBuffer
  <2>4. NewObjects[p] = [i \in DOMAIN MayHold[p] |-> NewObjects[p][i]]
    BY <2>1
  <2>5. IsFiniteSet({})
    BY FS_EmptySet
  <2> QED
    BY <2>3, <2>4, <2>5 DEF HasObjects
<1> QED
  BY <1>1, <1>2

LEMMA NoInputIs == HasInput(NoInput, <<>>, Nothing) /\ HasStream(NoInput, Nothing)
<1>1. IsBuffer(<<>>)
  BY DEF IsBuffer, IsSeq
<1> QED
  BY <1>1, ParseOfNone DEF HasInput, HasStream, NoInput, Nothing

LEMMA ExtractIsBuffer ==
  ASSUME NEW cells, IsBuffer(cells), NEW i \in DOMAIN Parse(cells)
  PROVE  IsBuffer(Extract(cells, Parse(cells)[i]))
<1>1. PICK o \in Nat, n \in Nat : o = Parse(cells)[i] /\ n = cells[o][2]
  BY ParseFinds
<1> DEFINE b == [k \in 1 .. n |-> IF o + k <= Len(cells) THEN cells[o + k] ELSE Junk]
<1>2. Extract(cells, Parse(cells)[i]) = b
  BY <1>1 DEF Extract
<1>3. b = [k \in 1 .. n |-> b[k]]
  OBVIOUS
<1>4. ASSUME NEW k \in 1 .. n, b[k][1] = "size" PROVE b[k][2] \in Nat
  <2>1. b[k] = IF o + k <= Len(cells) THEN cells[o + k] ELSE Junk
    OBVIOUS
  <2>2. Junk[1] # "size"
    BY DEF Junk
  <2> HIDE DEF b
  <2>3. o + k <= Len(cells) /\ b[k] = cells[o + k]
    BY <1>4, <2>1, <2>2
  <2>4. o + k \in 1 .. Len(cells)
    BY <2>3, SeqLength DEF IsBuffer
  <2> QED
    BY <1>4, <2>3, <2>4 DEF IsBuffer
<1> HIDE DEF b
<1>5. IsSeq(b) /\ Len(b) = n
  BY <1>3, FunctionIsSeq
<1> QED
  BY <1>2, <1>4, <1>5 DEF IsBuffer

LEMMA SnapshotIs ==
  ASSUME Objects, NEW p \in Proc
  PROVE  IsObjects(Snapshot(p).objects) /\ Collect(p) = CollectOf(Snapshot(p).objects)
<1>1. HasObjects(MayHold[p], object[p], registered[p])
  BY DEF Objects
<1> DEFINE o == Snapshot(p).objects
<1>2. o = [i \in registered[p] |-> object[p][i]] /\ DOMAIN o = registered[p]
  BY DEF Snapshot
<1> HIDE DEF o
<1>3. IsObjects(o)
  BY <1>1, <1>2 DEF IsObjects, HasObjects
<1>4. IsFiniteSet(registered[p])
  BY <1>1 DEF HasObjects
<1> QED
  BY <1>3, <1>4, CollectIsOf DEF o

LEMMA SnapshotsAre ==
  ASSUME Objects, size \in Sizes, NEW f
  PROVE  /\ AreObjects(Snapshots, size)
         /\ Pieces(f) = PiecesOf(f, Snapshots, size)
         /\ SizePieces(f) = SizesOf(f, Snapshots, size)
<1>1. size \in Nat /\ \A p \in 1 .. size : p \in Proc
  BY InProc, SizeIs
<1>2. \A p \in 1 .. size : IsObjects(Snapshots[p]) /\ Collect(p) = CollectOf(Snapshots[p])
  BY <1>1, SnapshotIs DEF Snapshots
<1>3. \A p \in 1 .. size : Piece(f, p) = PieceOf(f, Snapshots[p])
  BY <1>2 DEF Piece, PieceOf
<1> QED
  BY <1>1, <1>2, <1>3 DEF AreObjects, Pieces, PiecesOf, SizePieces, SizesOf

----------------------------------------------------------------------------
(* It is kept.                                                             *)

\* What does not change.
LEMMA Same ==
  /\ Objects /\ object' = object /\ registered' = registered => Objects'
  /\ Inputs /\ input' = input /\ offset' = offset /\ provenance' = provenance => Inputs'
  /\ Streams /\ stream' = stream /\ streamed' = streamed => Streams'
  /\ Files /\ data' = data /\ sizes' = sizes /\ saved' = saved => Files'
  /\ job.at = "run" /\ job' = job => Saving'
<1>1. Objects /\ object' = object /\ registered' = registered => Objects'
  BY DEF Objects
<1>2. Inputs /\ input' = input /\ offset' = offset /\ provenance' = provenance => Inputs'
  BY DEF Inputs
<1>3. Streams /\ stream' = stream /\ streamed' = streamed => Streams'
  BY DEF Streams
<1>4. Files /\ data' = data /\ sizes' = sizes /\ saved' = saved => Files'
  BY DEF Files
<1>5. job.at = "run" /\ job' = job => Saving'
  BY DEF Saving
<1> QED
  BY <1>1, <1>2, <1>3, <1>4, <1>5

LEMMA KeptInit == ASSUME JobInit PROVE Kept
<1>1. Objects
  BY NewObjectsAre DEF JobInit, Objects
<1>2. Inputs
  BY NoInputIs DEF JobInit, Inputs
<1>3. Streams
  BY NoInputIs DEF JobInit, Streams
<1>4. Files
  <2>1. ASSUME NEW f \in File PROVE IsFile(f, data[f], sizes[f], saved[f])
    <3>1. data[f] = <<>> /\ sizes[f] = <<>> /\ saved[f] = [whole |-> FALSE, size |-> 0, objects |-> <<>>]
      BY DEF JobInit
    <3>2. AreObjects(<<>>, 0)
      BY DEF AreObjects
    <3>3. IsPieces(<<>>, 0)
      BY DEF IsPieces
    <3>4. PiecesOf(f, <<>>, 0) = <<>> /\ 1 .. 0 = {}
      BY DEF PiecesOf
    <3>5. Written(<<>>, Junk, {}) = <<>>
      <4>1. Written(<<>>, Junk, 1 .. 0) = FlattenSeq(<<>>)
        BY <3>3, WrittenByAll
      <4>2. FlattenSeq(<<>>) = <<>>
        BY DEF FlattenSeq
      <4> QED
        BY <3>4, <4>1, <4>2
    <3> QED
      BY <3>1, <3>2, <3>4, <3>5 DEF IsFile
  <2> QED
    BY <2>1 DEF Files, JobInit
<1>5. Saving
  BY DEF JobInit, Saving
<1> QED
  BY <1>1, <1>2, <1>3, <1>4, <1>5 DEF Kept, JobInit

\* One object of one process changes.
LEMMA ObjectChanges ==
  ASSUME Objects, NEW p \in Proc, NEW i \in DOMAIN object[p], NEW v, IsBuffer(v),
         object' = [object EXCEPT ![p][i] = v],
         registered' \in {registered, [registered EXCEPT ![p] = @ \cup {i}]}
  PROVE  Objects'
<1>1. HasObjects(MayHold[p], object[p], registered[p])
  BY DEF Objects
<1>2. DOMAIN object[p] = DOMAIN MayHold[p]
  BY <1>1 DEF HasObjects
<1>3. /\ DOMAIN object = Proc /\ DOMAIN registered = Proc
      /\ object'[p] = [object[p] EXCEPT ![i] = v]
      /\ \A q \in Proc : q # p => object'[q] = object[q] /\ registered'[q] = registered[q]
      /\ registered'[p] \in {registered[p], registered[p] \cup {i}}
      /\ object' = [q \in Proc |-> object'[q]] /\ registered' = [q \in Proc |-> registered'[q]]
  BY DEF Objects
<1>4. HasObjects(MayHold[p], object'[p], registered'[p])
  <2>1. PICK o, n, r, s : o = object[p] /\ n = object'[p] /\ r = registered[p] /\ s = registered'[p]
    OBVIOUS
  <2>2. n = [o EXCEPT ![i] = v] /\ s \in {r, r \cup {i}} /\ HasObjects(MayHold[p], o, r) /\ i \in DOMAIN MayHold[p]
    BY <1>1, <1>2, <1>3, <2>1
  <2>3. IsFiniteSet(s)
    BY <2>2, FS_AddElement DEF HasObjects
  <2>4. s \subseteq DOMAIN MayHold[p]
    BY <2>2 DEF HasObjects
  <2>5. n = [j \in DOMAIN MayHold[p] |-> n[j]] /\ \A j \in DOMAIN MayHold[p] : IsBuffer(n[j])
    BY <2>2 DEF HasObjects
  <2> QED
    BY <2>1, <2>3, <2>4, <2>5 DEF HasObjects
<1>5. \A q \in Proc : HasObjects(MayHold[q], object'[q], registered'[q])
  BY <1>3, <1>4 DEF Objects
<1> QED
  BY <1>3, <1>5 DEF Objects

LEMMA KeptCompute == ASSUME Kept, NEW p \in Proc, NEW i, Compute(p, i) PROVE Kept'
<1>1. PICK v \in MayHold[p][i] : object' = [object EXCEPT ![p][i] = Bytes(v)]
  BY DEF Compute
<1>2. i \in DOMAIN object[p] /\ registered' = registered /\ Objects
  BY DEF Compute, Kept
<1>3. i \in DOMAIN MayHold[p]
  BY <1>2 DEF Objects, HasObjects
<1>4. IsBuffer(Bytes(v))
  BY <1>3, BytesAreBuffer
<1>5. Objects'
  BY <1>1, <1>2, <1>4, ObjectChanges
<1>6. Inputs' /\ Streams' /\ Files' /\ Saving' /\ size' \in Sizes
  BY Same DEF Compute, Kept, Running, files
<1> QED
  BY <1>5, <1>6 DEF Kept

LEMMA KeptRestoreObject ==
  ASSUME Kept, NEW p \in Proc, NEW i, NEW add, RestoreObject(p, i, add) PROVE Kept'
<1> DEFINE v == Extract(input[p].cells, offset[p][i])
<1>1. /\ i \in DOMAIN object[p] /\ object' = [object EXCEPT ![p][i] = v]
      /\ registered' \in {registered, [registered EXCEPT ![p] = @ \cup {i}]}
      /\ i \in DOMAIN offset[p] /\ Objects
  BY DEF RestoreObject, Kept
<1>2. HasInput(input[p], offset[p], provenance[p])
  BY DEF Kept, Inputs
<1>3. IsBuffer(input[p].cells) /\ offset[p] = Parse(input[p].cells)
  BY <1>2 DEF HasInput
<1>4. IsBuffer(v)
  BY <1>1, <1>3, ExtractIsBuffer
<1> HIDE DEF v
<1>5. Objects'
  BY <1>1, <1>4, ObjectChanges
<1>6. Inputs' /\ Streams' /\ Files' /\ Saving' /\ size' \in Sizes
  BY Same DEF RestoreObject, Kept, Running, files
<1> QED
  BY <1>5, <1>6 DEF Kept

LEMMA KeptAddOrRemove ==
  ASSUME Kept, NEW p \in Proc, NEW i, AddObject(p, i) \/ RemoveObject(p, i) PROVE Kept'
<1>1. /\ registered' \in {[registered EXCEPT ![p] = @ \cup {i}], [registered EXCEPT ![p] = @ \ {i}]}
      /\ object' = object /\ Objects
      /\ i \in DOMAIN object[p] \/ i \in registered[p]
  BY DEF AddObject, RemoveObject, Kept
<1>2. HasObjects(MayHold[p], object[p], registered[p])
  BY <1>1 DEF Objects
<1>3. i \in DOMAIN MayHold[p]
  BY <1>1, <1>2 DEF HasObjects
<1>4. /\ registered'[p] \in {registered[p] \cup {i}, registered[p] \ {i}}
      /\ \A q \in Proc : q # p => registered'[q] = registered[q]
      /\ registered' = [q \in Proc |-> registered'[q]]
  BY <1>1 DEF Objects
<1>5. HasObjects(MayHold[p], object'[p], registered'[p])
  <2>1. PICK r : r = registered[p]
    OBVIOUS
  <2>2. IsFiniteSet(r) /\ r \subseteq DOMAIN MayHold[p]
    BY <1>2, <2>1 DEF HasObjects
  <2>3. IsFiniteSet(r \cup {i}) /\ IsFiniteSet(r \ {i})
    BY <2>2, FS_AddElement, FS_Subset
  <2>4. IsFiniteSet(registered'[p]) /\ registered'[p] \subseteq DOMAIN MayHold[p]
    BY <1>3, <1>4, <2>1, <2>2, <2>3
  <2> QED
    BY <1>1, <1>2, <2>4 DEF HasObjects
<1>6. \A q \in Proc : HasObjects(MayHold[q], object'[q], registered'[q])
  BY <1>1, <1>4, <1>5 DEF Objects
<1>7. Objects'
  BY <1>1, <1>4, <1>6 DEF Objects
<1>8. Inputs' /\ Streams' /\ Files' /\ Saving' /\ size' \in Sizes
  BY Same DEF AddObject, RemoveObject, Kept, Running, files
<1> QED
  BY <1>7, <1>8 DEF Kept

LEMMA KeptClearInput == ASSUME Kept, NEW p \in Proc, ClearInput(p) PROVE Kept'
<1>1. Inputs'
  <2>1. /\ input' = [input EXCEPT ![p] = NoInput] /\ offset' = [offset EXCEPT ![p] = <<>>]
        /\ provenance' = [provenance EXCEPT ![p] = Nothing] /\ Inputs
    BY DEF ClearInput, Forget, Kept
  <2> QED
    BY <2>1, NoInputIs DEF Inputs
<1>2. Objects' /\ Streams' /\ Files' /\ Saving' /\ size' \in Sizes
  BY Same DEF ClearInput, Kept, Running, files
<1> QED
  BY <1>1, <1>2 DEF Kept

LEMMA KeptSaveStream == ASSUME Kept, NEW p \in Proc, SaveStream(p) PROVE Kept'
<1>1. Streams'
  <2>1. /\ stream' = [stream EXCEPT ![p] = Input(Collect(p))]
        /\ streamed' = [streamed EXCEPT ![p] = Snapshot(p)] /\ Streams /\ Objects
    BY DEF SaveStream, Kept
  <2>2. IsObjects(Snapshot(p).objects) /\ Collect(p) = CollectOf(Snapshot(p).objects)
    BY <2>1, SnapshotIs
  <2>3. Snapshot(p) = [kind |-> "checkpoint", objects |-> Snapshot(p).objects]
    BY DEF Snapshot
  <2>4. PICK a, b : a = Input(Collect(p)) /\ b = Snapshot(p)
    OBVIOUS
  <2>5. HasStream(a, b)
    BY <2>2, <2>3, <2>4 DEF HasStream, Input
  <2>6. stream' = [stream EXCEPT ![p] = a] /\ streamed' = [streamed EXCEPT ![p] = b]
    BY <2>1, <2>4
  <2> QED
    BY <2>1, <2>5, <2>6 DEF Streams
<1>2. Objects' /\ Inputs' /\ Files' /\ Saving' /\ size' \in Sizes
  BY Same DEF SaveStream, Kept, Running, files
<1> QED
  BY <1>1, <1>2 DEF Kept

\* What comes out of a stream.
LEMMA FromStreamIs ==
  ASSUME NEW cells, IsBuffer(cells)
  PROVE  IsBuffer(FromStream(cells)) /\ (Zlib => FromStream(cells) = cells)
<1>1. Zlib => FromStream(cells) = cells
  BY UncompressIs DEF FromStream, IsBuffer
<1>2. CASE ~Zlib
  <2>1. PICK n \in Nat : n = Len(cells)
    BY SeqLength DEF IsBuffer
  <2> DEFINE b == [k \in 1 .. n |-> IF k < n THEN cells[k] ELSE Junk]
  <2>2. FromStream(cells) = b
    BY <1>2, <2>1 DEF FromStream
  <2>3. b = [k \in 1 .. n |-> b[k]]
    OBVIOUS
  <2>4. \A k \in 1 .. n : b[k] = cells[k] \/ b[k] = Junk
    OBVIOUS
  <2>5. Junk[1] # "size"
    BY DEF Junk
  <2> HIDE DEF b
  <2>6. IsSeq(b) /\ Len(b) = n
    BY <2>3, FunctionIsSeq
  <2> QED
    BY <1>1, <2>1, <2>2, <2>4, <2>5, <2>6 DEF IsBuffer
<1> QED
  BY <1>1, <1>2

LEMMA KeptLoadStream == ASSUME Kept, NEW p \in Proc, LoadStream(p) PROVE Kept'
<1>1. Inputs'
  <2>1. PICK cells : /\ cells = FromStream(stream[p].cells)
                     /\ input' = [input EXCEPT ![p] = Input(cells)]
                     /\ offset' = [offset EXCEPT ![p] = Parse(cells)]
    BY DEF LoadStream
  <2>2. provenance' = [provenance EXCEPT ![p] = streamed[p]] /\ stream[p].loaded /\ Inputs /\ Streams
    BY DEF LoadStream, Kept
  <2>3. PICK own : own = streamed[p]
    OBVIOUS
  <2>4. /\ stream[p].cells = CollectOf(own.objects) /\ IsObjects(own.objects)
        /\ own = [kind |-> "checkpoint", objects |-> own.objects]
    BY <2>2, <2>3 DEF Streams, HasStream
  <2>5. IsBuffer(cells) /\ (Zlib => cells = CollectOf(own.objects))
    BY <2>1, <2>4, CollectIsBuffer, FromStreamIs
  <2>6. Zlib => Extracts(cells, Parse(cells)) = own.objects
    BY <2>4, <2>5, ReadBack
  <2>7. Input(cells) = [loaded |-> TRUE, cells |-> cells]
    BY DEF Input
  <2>8. own.kind = "checkpoint"
    BY <2>4
  <2>9. PICK a, b : a = Input(cells) /\ b = Parse(cells)
    OBVIOUS
  <2>10. HasInput(a, b, own)
    BY <2>4, <2>5, <2>6, <2>7, <2>8, <2>9 DEF HasInput
  <2>11. /\ input' = [input EXCEPT ![p] = a] /\ offset' = [offset EXCEPT ![p] = b]
         /\ provenance' = [provenance EXCEPT ![p] = own]
    BY <2>1, <2>2, <2>3, <2>9
  <2> QED
    BY <2>2, <2>10, <2>11 DEF Inputs
<1>2. Objects' /\ Streams' /\ Files' /\ Saving' /\ size' \in Sizes
  BY Same DEF LoadStream, Kept, Running, files
<1> QED
  BY <1>1, <1>2 DEF Kept

\* One file changes.
LEMMA FileChanges ==
  ASSUME Files, NEW f \in File, NEW d, NEW s, NEW r, IsFile(f, d, s, r),
         data' = [data EXCEPT ![f] = d], sizes' = [sizes EXCEPT ![f] = s],
         saved' = [saved EXCEPT ![f] = r]
  PROVE  Files' /\ data'[f] = d /\ sizes'[f] = s /\ saved'[f] = r
<1>1. data'[f] = d /\ sizes'[f] = s /\ saved'[f] = r
  BY DEF Files
<1>2. \A g \in File : g # f => data'[g] = data[g] /\ sizes'[g] = sizes[g] /\ saved'[g] = saved[g]
  BY DEF Files
<1>3. /\ data' = [g \in File |-> data'[g]] /\ sizes' = [g \in File |-> sizes'[g]]
      /\ saved' = [g \in File |-> saved'[g]]
  BY DEF Files
<1>4. \A g \in File : IsFile(g, data'[g], sizes'[g], saved'[g])
  BY <1>1, <1>2 DEF Files
<1> QED
  BY <1>1, <1>3, <1>4 DEF Files

LEMMA SameFile ==
  ASSUME Files, NEW f \in File
  PROVE  /\ data = [data EXCEPT ![f] = data[f]] /\ sizes = [sizes EXCEPT ![f] = sizes[f]]
         /\ saved = [saved EXCEPT ![f] = saved[f]]
         /\ IsFile(f, data[f], sizes[f], saved[f])
BY DEF Files

\* No process has written yet.
LEMMA WrittenByNone ==
  ASSUME NEW pieces, NEW hole
  PROVE  Written(pieces, hole, {}) = <<>>
<1>1. Max({} \cup {0}) = 0
  <2>1. (1 .. 0) \cup {0} = {} \cup {0}
    OBVIOUS
  <2> QED
    BY <2>1, MaxOfAll
<1>2. [p \in 1 .. Max({} \cup {0}) |->
         IF p \in {} THEN pieces[p] ELSE [k \in 1 .. Len(pieces[p]) |-> hole]] = <<>>
  BY <1>1
<1>3. FlattenSeq(<<>>) = <<>>
  BY DEF FlattenSeq
<1> QED
  BY <1>2, <1>3 DEF Written

LEMMA KeptSave == ASSUME Kept, NEW f \in File, Save(f) PROVE Kept'
<1> DEFINE r == [whole |-> FALSE, size |-> size, objects |-> Snapshots]
<1>1. /\ data' = [data EXCEPT ![f] = <<>>] /\ sizes' = sizes /\ saved' = [saved EXCEPT ![f] = r]
      /\ Files /\ Objects /\ size \in Sizes
      /\ job' = [at |-> "data", file |-> f]
      /\ UNCHANGED <<size, object, registered, input, offset, stream, streamed, provenance>>
  BY DEF Save, Kept, Replace, Go, memory, Snapshots
<1>2. AreObjects(Snapshots, size)
  BY <1>1, SnapshotsAre
<1>3. PICK q : q = r
  OBVIOUS
<1>4. q.whole = FALSE /\ q.size = size /\ q.objects = Snapshots
      /\ q = [whole |-> q.whole, size |-> q.size, objects |-> q.objects]
  BY <1>3
<1>5. IsFile(f, <<>>, sizes[f], q)
  <2>1. sizes[f] \in Seq(Nat \X Nat)
    BY <1>1, SameFile DEF IsFile
  <2>2. <<>> = Written(PiecesOf(f, Snapshots, size), Junk, {})
    BY WrittenByNone
  <2>3. {} \in SUBSET (1 .. size)
    OBVIOUS
  <2> QED
    BY <1>2, <1>4, <2>1, <2>2, <2>3 DEF IsFile
<1>6. sizes' = [sizes EXCEPT ![f] = sizes[f]]
  BY <1>1, SameFile
<1>7. Files' /\ saved'[f] = q
  <2>1. saved' = [saved EXCEPT ![f] = q] /\ data' = [data EXCEPT ![f] = <<>>] /\ Files
    BY <1>1, <1>3
  <2> QED
    BY <1>5, <1>6, <2>1, FileChanges
<1>8. Snapshots' = Snapshots
  BY <1>1 DEF Snapshots, Snapshot
<1>9. Saving'
  <2>1. job'.at = "data" /\ job'.file = f
    BY <1>1
  <2>2. IsSaving(f)'
    BY <1>1, <1>4, <1>7, <1>8, <2>1 DEF IsSaving
  <2> QED
    BY <2>1, <2>2 DEF Saving
<1>10. Objects' /\ Inputs' /\ Streams' /\ size' \in Sizes
  BY <1>1, Same DEF Kept
<1> QED
  BY <1>7, <1>9, <1>10 DEF Kept

\* What a step of save has of the invariant.
LEMMA InSave ==
  ASSUME Kept, NEW f, job.file = f, job.at \in {"data", "between", "sizes"}
  PROVE  /\ IsSaving(f) /\ f \in File /\ Files /\ Objects /\ size \in Sizes /\ size # 0
         /\ AreObjects(Snapshots, size)
         /\ Pieces(f) = PiecesOf(f, Snapshots, size)
         /\ SizePieces(f) = SizesOf(f, Snapshots, size)
         /\ saved[f] = [whole |-> FALSE, size |-> size, objects |-> Snapshots]
<1>1. IsSaving(f) /\ Files /\ Objects /\ size \in Sizes
  BY DEF Kept, Saving
<1>2. f \in File /\ saved[f].size = size /\ saved[f].objects = Snapshots /\ ~saved[f].whole
  BY <1>1 DEF IsSaving
<1>3. IsFile(f, data[f], sizes[f], saved[f])
  BY <1>1, <1>2 DEF Files
<1>4. saved[f] = [whole |-> FALSE, size |-> size, objects |-> Snapshots]
  BY <1>2, <1>3 DEF IsFile
<1> QED
  BY <1>1, <1>2, <1>4, SnapshotsAre, SizeIs

LEMMA KeptWriteData == ASSUME Kept, NEW f \in File, WriteData(f) PROVE Kept'
<1>1. job.file = f /\ job.at = "data"
  BY DEF WriteData, JobAt
<1>2. /\ IsSaving(f) /\ Files /\ AreObjects(Snapshots, size) /\ size \in Sizes
      /\ Pieces(f) = PiecesOf(f, Snapshots, size)
      /\ saved[f] = [whole |-> FALSE, size |-> size, objects |-> Snapshots]
  BY <1>1, InSave
<1>3. PICK d : d = Written(PiecesOf(f, Snapshots, size), Junk, 1 .. size)
  OBVIOUS
<1>4. /\ data' = [data EXCEPT ![f] = d] /\ sizes' = sizes /\ saved' = saved
      /\ job' = [at |-> "between", file |-> f]
      /\ UNCHANGED <<size, object, registered, input, offset, stream, streamed, provenance>>
  BY <1>2, <1>3 DEF WriteData, Replace, Go, memory
<1>5. IsFile(f, d, sizes[f], saved[f])
  <2>1. sizes[f] \in Seq(Nat \X Nat)
    BY <1>2, SameFile DEF IsFile
  <2>2. 1 .. size \in SUBSET (1 .. size)
    OBVIOUS
  <2>3. PICK r : r = saved[f]
    OBVIOUS
  <2>4. r.whole = FALSE /\ r.size = size /\ r.objects = Snapshots
        /\ r = [whole |-> r.whole, size |-> r.size, objects |-> r.objects]
    BY <1>2, <2>3
  <2> QED
    BY <1>2, <1>3, <2>1, <2>2, <2>3, <2>4 DEF IsFile
<1>6. sizes' = [sizes EXCEPT ![f] = sizes[f]] /\ saved' = [saved EXCEPT ![f] = saved[f]]
  BY <1>2, <1>4, SameFile
<1>7. Files' /\ saved'[f] = saved[f] /\ data'[f] = d
  <2>1. data' = [data EXCEPT ![f] = d] /\ Files
    BY <1>2, <1>4
  <2> QED
    BY <1>5, <1>6, <2>1, FileChanges
<1>8. Snapshots' = Snapshots
  BY <1>4 DEF Snapshots, Snapshot
<1>9. Saving'
  <2>1. job'.at = "between" /\ job'.file = f
    BY <1>4
  <2>2. IsSaving(f)'
    BY <1>2, <1>3, <1>4, <1>7, <1>8 DEF IsSaving
  <2> QED
    BY <2>1, <2>2 DEF Saving
<1>10. Objects' /\ Inputs' /\ Streams' /\ size' \in Sizes
  BY <1>4, Same DEF Kept
<1> QED
  BY <1>7, <1>9, <1>10 DEF Kept

LEMMA KeptTruncateSizes == ASSUME Kept, NEW f \in File, TruncateSizes(f) PROVE Kept'
<1>1. job.file = f /\ job.at = "between"
  BY DEF TruncateSizes, JobAt
<1>2. /\ IsSaving(f) /\ Files /\ size \in Sizes
      /\ saved[f] = [whole |-> FALSE, size |-> size, objects |-> Snapshots]
      /\ data[f] = Written(PiecesOf(f, Snapshots, size), Junk, 1 .. size)
  BY <1>1, InSave DEF IsSaving
<1>3. /\ sizes' = [sizes EXCEPT ![f] = <<>>] /\ data' = data /\ saved' = saved
      /\ job' = [at |-> "sizes", file |-> f]
      /\ UNCHANGED <<size, object, registered, input, offset, stream, streamed, provenance>>
  BY DEF TruncateSizes, Replace, Go, memory
<1>4. IsFile(f, data[f], <<>>, saved[f])
  <2>1. IsFile(f, data[f], sizes[f], saved[f]) /\ ~saved[f].whole /\ <<>> \in Seq(Nat \X Nat)
    BY <1>2, SameFile
  <2> QED
    BY <2>1 DEF IsFile
<1>5. data' = [data EXCEPT ![f] = data[f]] /\ saved' = [saved EXCEPT ![f] = saved[f]]
  BY <1>2, <1>3, SameFile
<1>6. Files' /\ saved'[f] = saved[f] /\ data'[f] = data[f]
  BY <1>2, <1>3, <1>4, <1>5, FileChanges
<1>7. Snapshots' = Snapshots
  BY <1>3 DEF Snapshots, Snapshot
<1>8. Saving'
  <2>1. job'.at = "sizes" /\ job'.file = f
    BY <1>3
  <2>2. IsSaving(f)'
    BY <1>2, <1>3, <1>6, <1>7 DEF IsSaving
  <2> QED
    BY <2>1, <2>2 DEF Saving
<1>9. Objects' /\ Inputs' /\ Streams' /\ size' \in Sizes
  BY <1>3, Same DEF Kept
<1> QED
  BY <1>6, <1>8, <1>9 DEF Kept

LEMMA KeptWriteSizes == ASSUME Kept, NEW f \in File, WriteSizes(f) PROVE Kept'
<1>1. job.file = f /\ job.at = "sizes"
  BY DEF WriteSizes, JobAt
<1>2. /\ IsSaving(f) /\ Files /\ AreObjects(Snapshots, size) /\ size \in Sizes /\ size # 0
      /\ SizePieces(f) = SizesOf(f, Snapshots, size)
      /\ saved[f] = [whole |-> FALSE, size |-> size, objects |-> Snapshots]
      /\ data[f] = Written(PiecesOf(f, Snapshots, size), Junk, 1 .. size)
  BY <1>1, InSave DEF IsSaving
<1>3. PICK s : s = Written(SizesOf(f, Snapshots, size), <<0, 0>>, 1 .. size)
  OBVIOUS
<1>4. PICK r : r = [whole |-> TRUE, size |-> size, objects |-> Snapshots]
  OBVIOUS
<1>5. /\ sizes' = [sizes EXCEPT ![f] = s] /\ data' = data
      /\ job' = [at |-> "run", file |-> "none"]
      /\ UNCHANGED <<size, object, registered, input, offset, stream, streamed, provenance>>
  BY <1>2, <1>3 DEF WriteSizes, Replace, Go, memory
<1>6. saved' = [saved EXCEPT ![f] = r]
  <2>1. saved' = [saved EXCEPT ![f].whole = TRUE]
    BY DEF WriteSizes
  <2>2. [saved[f] EXCEPT !.whole = TRUE] = r
    <3>1. PICK n, o : n = size /\ o = Snapshots
      OBVIOUS
    <3>2. saved[f] = [whole |-> FALSE, size |-> n, objects |-> o]
      BY <1>2, <3>1
    <3>3. PICK a : a = saved[f]
      OBVIOUS
    <3>4. a \in [whole : BOOLEAN, size : {n}, objects : {o}]
      BY <3>2, <3>3
    <3>5. PICK b : b = [a EXCEPT !.whole = TRUE]
      OBVIOUS
    <3>6. b \in [whole : BOOLEAN, size : {n}, objects : {o}] /\ b.whole = TRUE
      BY <3>4, <3>5
    <3>7. b = [whole |-> TRUE, size |-> n, objects |-> o]
      BY <3>6
    <3> QED
      BY <1>4, <3>1, <3>3, <3>5, <3>7
  <2>3. saved' = [saved EXCEPT ![f] = [saved[f] EXCEPT !.whole = TRUE]]
    BY <2>1
  <2> QED
    BY <2>2, <2>3
<1>7. IsFile(f, data[f], s, r)
  <2>1. s \in Seq(Nat \X Nat)
    <3>1. 1 .. size \in SUBSET (1 .. size)
      OBVIOUS
    <3> QED
      BY <1>2, <1>3, <3>1, SizesType
  <2>2. r.whole = TRUE /\ r.size = size /\ r.objects = Snapshots
        /\ r = [whole |-> r.whole, size |-> r.size, objects |-> r.objects]
    BY <1>4
  <2>3. 1 .. size \in SUBSET (1 .. size)
    OBVIOUS
  <2> QED
    BY <1>2, <1>3, <2>1, <2>2, <2>3 DEF IsFile
<1>8. data' = [data EXCEPT ![f] = data[f]]
  BY <1>2, <1>5, SameFile
<1>9. Files'
  BY <1>2, <1>5, <1>6, <1>7, <1>8, FileChanges
<1>10. Saving'
  BY <1>5 DEF Saving
<1>11. Objects' /\ Inputs' /\ Streams' /\ size' \in Sizes
  BY <1>5, Same DEF Kept
<1> QED
  BY <1>9, <1>10, <1>11 DEF Kept

\* A failure, of the job or of its writing.
LEMMA KeptFail == ASSUME Kept, NEW S \in SUBSET (1 .. size), JobFails(S) PROVE Kept'
<1>1. Objects' /\ Inputs' /\ Streams' /\ size' \in Sizes /\ Saving'
  <2>1. Restart
    BY DEF JobFails
  <2>2. Objects'
    BY <2>1, NewObjectsAre DEF Restart, Objects
  <2>3. Inputs'
    BY <2>1, NoInputIs DEF Restart, Inputs
  <2>4. Streams'
    BY <2>1, NoInputIs DEF Restart, Streams
  <2>5. Saving'
    BY <2>1 DEF Restart, Saving
  <2> QED
    BY <2>1, <2>2, <2>3, <2>4, <2>5 DEF Restart
<1>2. saved' = saved /\ Files
  BY DEF JobFails, Restart, Kept
<1>3. CASE job.at = "data"
  <2>1. PICK f : f = job.file
    OBVIOUS
  <2>2. /\ f \in File /\ AreObjects(Snapshots, size) /\ Pieces(f) = PiecesOf(f, Snapshots, size)
        /\ saved[f] = [whole |-> FALSE, size |-> size, objects |-> Snapshots]
    BY <1>3, <2>1, InSave
  <2>3. PICK d : d = Written(PiecesOf(f, Snapshots, size), Junk, S)
    OBVIOUS
  <2>4. data' = [data EXCEPT ![f] = d] /\ sizes' = sizes
    BY <1>3, <2>1, <2>2, <2>3 DEF JobFails, Replace
  <2>5. IsFile(f, d, sizes[f], saved[f])
    <3>1. sizes[f] \in Seq(Nat \X Nat)
      BY <1>2, <2>2, SameFile DEF IsFile
    <3>2. PICK r : r = saved[f]
      OBVIOUS
    <3>3. r.whole = FALSE /\ r.size = size /\ r.objects = Snapshots
          /\ r = [whole |-> r.whole, size |-> r.size, objects |-> r.objects]
      BY <2>2, <3>2
    <3> QED
      BY <2>2, <2>3, <3>1, <3>2, <3>3 DEF IsFile
  <2>6. sizes' = [sizes EXCEPT ![f] = sizes[f]] /\ saved' = [saved EXCEPT ![f] = saved[f]]
    BY <1>2, <2>2, <2>4, SameFile
  <2>7. Files'
    BY <1>2, <2>2, <2>4, <2>5, <2>6, FileChanges
  <2> QED
    BY <1>1, <2>7 DEF Kept
<1>4. CASE job.at = "sizes"
  <2>1. PICK f : f = job.file
    OBVIOUS
  <2>2. /\ f \in File /\ AreObjects(Snapshots, size) /\ SizePieces(f) = SizesOf(f, Snapshots, size)
        /\ saved[f] = [whole |-> FALSE, size |-> size, objects |-> Snapshots]
    BY <1>4, <2>1, InSave
  <2>3. PICK s : s = Written(SizesOf(f, Snapshots, size), <<0, 0>>, S)
    OBVIOUS
  <2>4. sizes' = [sizes EXCEPT ![f] = s] /\ data' = data
    BY <1>4, <2>1, <2>2, <2>3 DEF JobFails, Replace
  <2>5. IsFile(f, data[f], s, saved[f])
    <3>1. s \in Seq(Nat \X Nat)
      BY <2>2, <2>3, SizesType
    <3>2. IsFile(f, data[f], sizes[f], saved[f]) /\ ~saved[f].whole
      BY <1>2, <2>2, SameFile
    <3> QED
      BY <3>1, <3>2 DEF IsFile
  <2>6. data' = [data EXCEPT ![f] = data[f]] /\ saved' = [saved EXCEPT ![f] = saved[f]]
    BY <1>2, <2>2, <2>4, SameFile
  <2>7. Files'
    BY <1>2, <2>2, <2>4, <2>5, <2>6, FileChanges
  <2> QED
    BY <1>1, <2>7 DEF Kept
<1>5. CASE job.at # "data" /\ job.at # "sizes"
  <2>1. data' = data /\ sizes' = sizes
    BY <1>5 DEF JobFails
  <2> QED
    BY <1>1, <1>2, <2>1, Same DEF Kept
<1> QED
  BY <1>3, <1>4, <1>5

\* What a process reads of a whole checkpoint, when as many read as have saved.
LEMMA WholeGives ==
  ASSUME Kept, NEW f \in File, saved[f].whole, saved[f].size = size, NEW p \in 1 .. size
  PROVE  /\ Len(sizes[f]) = size
         /\ f \in Compressed => CanUncompress(ReadOrdered(data[f], sizes[f], p), sizes[f][p][1])
         /\ IsObjects(saved[f].objects[p])
         /\ Loaded(f, p) = CollectOf(saved[f].objects[p])
<1>1. IsFile(f, data[f], sizes[f], saved[f]) /\ size \in Nat
  BY SizeIs DEF Kept, Files
<1>2. PICK o : o = saved[f].objects
  OBVIOUS
<1>3. /\ AreObjects(o, size)
      /\ data[f] = Written(PiecesOf(f, o, size), Junk, 1 .. size)
      /\ sizes[f] = Written(SizesOf(f, o, size), <<0, 0>>, 1 .. size)
  BY <1>1, <1>2 DEF IsFile
<1>4. IsObjects(o[p])
  BY <1>3 DEF AreObjects
<1> QED
  BY <1>1, <1>2, <1>3, <1>4, WholeIsRead

\* A whole checkpoint is as long as the number of those who have saved.
LEMMA WholeLength ==
  ASSUME Files, NEW f \in File, saved[f].whole
  PROVE  Len(sizes[f]) = saved[f].size /\ saved[f].size \in Nat \ {0}
<1>1. IsFile(f, data[f], sizes[f], saved[f])
  BY DEF Files
<1>2. PICK o, n : o = saved[f].objects /\ n = saved[f].size
  OBVIOUS
<1>3. /\ AreObjects(o, n) /\ n # 0
      /\ sizes[f] = Written(SizesOf(f, o, n), <<0, 0>>, 1 .. n)
  BY <1>1, <1>2 DEF IsFile
<1>4. sizes[f] = [p \in 1 .. n |-> <<Len(CollectOf(o[p])), Len(PieceOf(f, o[p]))>>]
  BY <1>3, SizesAre
<1>5. n \in Nat
  BY <1>3 DEF AreObjects
<1> QED
  BY <1>2, <1>3, <1>4, <1>5

\* What a process has after it has read.
LEMMA LoadGives ==
  ASSUME Kept, NEW f \in File, Len(sizes[f]) = size, NEW p \in 1 .. size,
         f \in Compressed => \A q \in 1 .. size :
           Uncompresses(ReadOrdered(data[f], sizes[f], q), sizes[f][q][1])
  PROVE  HasInput(Input(Loaded(f, p)), Parse(Loaded(f, p)), OriginOf(f, p))
<1> DEFINE cells == Loaded(f, p)
           o == saved[f].objects
           n == saved[f].size
<1>1. IsFile(f, data[f], sizes[f], saved[f]) /\ size \in Nat /\ Files
  BY SizeIs DEF Kept, Files
<1>2. /\ AreObjects(o, n) /\ sizes[f] \in Seq(Nat \X Nat)
      /\ \E S \in SUBSET (1 .. n) : data[f] = Written(PiecesOf(f, o, n), Junk, S)
  BY <1>1 DEF IsFile
<1>3. PICK S \in SUBSET (1 .. n) : data[f] = Written(PiecesOf(f, o, n), Junk, S)
  BY <1>2
<1>4. f \in Compressed => \A q \in 1 .. size : CanUncompress(ReadOrdered(data[f], sizes[f], q), sizes[f][q][1])
  BY DEF Uncompresses
<1>5. PICK org : org = OriginOf(f, p)
  OBVIOUS
<1>6. Input(cells).loaded = TRUE /\ Input(cells).cells = cells
  BY DEF Input
<1>7. IsBuffer(cells)
  <2>1. CASE f \in Compressed
    <3>0. PICK m \in 0 .. n : \E w : BufferLayout(data[f], PiecesOf(f, o, n), Junk, S, m, w)
      BY <1>2, <1>3, PiecesAre, WrittenIs
    <3>1. PICK w : BufferLayout(data[f], PiecesOf(f, o, n), Junk, S, m, w)
      BY <3>0
    <3>2. CanUncompress(ReadOrdered(data[f], sizes[f], p), sizes[f][p][1])
      BY <1>4, <2>1
    <3>3. PICK s : s = sizes[f]
      OBVIOUS
    <3>4. \E q : Found(f, o, s, p, S, m, w, q)
      BY <1>2, <1>3, <2>1, <3>1, <3>2, <3>3, CompressedIsRead
    <3>5. PICK q : q \in 1 .. m /\ cells = CollectOf(o[q])
      BY <3>4 DEF Found
    <3>6. IsObjects(o[q])
      BY <1>2, <3>1, <3>5 DEF AreObjects
    <3> QED
      BY <3>5, <3>6, CollectIsBuffer
  <2>2. CASE f \notin Compressed
    <3>1. cells = ReadOrdered(data[f], sizes[f], p)
      BY <2>2 DEF Loaded
    <3> QED
      BY <1>2, <1>3, <2>2, <3>1, PlainIsBuffer
  <2> QED
    BY <2>1, <2>2
<1>8. CASE saved[f].whole
  <2>1. n = size
    BY <1>1, <1>8, WholeLength
  <2>2. IsObjects(o[p]) /\ cells = CollectOf(o[p])
    BY <1>8, <2>1, WholeGives
  <2>3. Extracts(cells, Parse(cells)) = o[p]
    BY <2>2, ReadBack
  <2>4. org = [kind |-> "checkpoint", objects |-> o[p]]
    BY <1>5, <1>8 DEF OriginOf
  <2>5. org.kind = "checkpoint" /\ org.objects = o[p] /\ org = [kind |-> "checkpoint", objects |-> org.objects]
    BY <2>4
  <2> HIDE DEF cells, o
  <2> QED
    BY <1>5, <1>6, <1>7, <2>3, <2>5 DEF HasInput, Input, cells
<1>9. CASE ~saved[f].whole
  <2>1. CASE f \in Compressed /\ n <= size /\ p <= n
    <3>1. /\ \A q \in 1 .. size : CanUncompress(ReadOrdered(data[f], sizes[f], q), sizes[f][q][1])
          /\ n <= size
      BY <1>4, <2>1
    <3>2. p \in 1 .. n /\ cells = CollectOf(o[p])
      BY <1>2, <1>3, <2>1, <3>1, TornIsRead
    <3>3. IsObjects(o[p])
      BY <1>2, <3>2 DEF AreObjects
    <3>4. Extracts(cells, Parse(cells)) = o[p]
      BY <3>2, <3>3, ReadBack
    <3>5. org = [kind |-> "torn", objects |-> o[p]]
      BY <1>5, <1>9, <2>1 DEF OriginOf
    <3>6. org.kind = "torn" /\ org.objects = o[p]
      BY <3>5
    <3> HIDE DEF cells, o
    <3> QED
      BY <1>5, <1>6, <1>7, <3>4, <3>6 DEF HasInput, Input, cells
  <2>2. CASE ~(f \in Compressed /\ n <= size /\ p <= n)
    <3>1. org = [kind |-> "torn", objects |-> <<>>]
      BY <1>5, <1>9, <2>2 DEF OriginOf
    <3>2. org.kind = "torn" /\ org.objects = <<>>
      BY <3>1
    <3> HIDE DEF cells
    <3> QED
      BY <1>5, <1>6, <1>7, <3>2 DEF HasInput, Input, cells
  <2> QED
    BY <2>1, <2>2
<1> QED
  BY <1>8, <1>9

LEMMA KeptLoad == ASSUME Kept, NEW f \in File, Load(f) PROVE Kept'
<1>1. PICK cells : /\ cells = [p \in 1 .. size |-> Loaded(f, p)]
                   /\ input' = [p \in Proc |-> IF p <= size THEN Input(cells[p]) ELSE NoInput]
                   /\ offset' = [p \in Proc |-> IF p <= size THEN Parse(cells[p]) ELSE <<>>]
  BY DEF Load
<1>2. /\ provenance' = [p \in Proc |-> IF p <= size THEN OriginOf(f, p) ELSE Nothing]
      /\ Len(sizes[f]) = size
      /\ f \in Compressed => \A q \in 1 .. size :
           Uncompresses(ReadOrdered(data[f], sizes[f], q), sizes[f][q][1])
  BY DEF Load
<1>3. ASSUME NEW p \in Proc PROVE HasInput(input'[p], offset'[p], provenance'[p])
  <2>1. CASE p <= size
    <3>1. p \in 1 .. size
      BY <2>1, SizeIs DEF Kept
    <3>2. HasInput(Input(Loaded(f, p)), Parse(Loaded(f, p)), OriginOf(f, p))
      BY <1>2, <3>1, LoadGives
    <3>3. input'[p] = Input(cells[p]) /\ offset'[p] = Parse(cells[p]) /\ provenance'[p] = OriginOf(f, p)
      BY <1>1, <1>2, <2>1
    <3>4. cells[p] = Loaded(f, p)
      BY <1>1, <3>1
    <3> QED
      BY <3>2, <3>3, <3>4
  <2>2. CASE ~(p <= size)
    <3>1. input'[p] = NoInput /\ offset'[p] = <<>> /\ provenance'[p] = Nothing
      BY <1>1, <1>2, <2>2
    <3> QED
      BY <3>1, NoInputIs
  <2> QED
    BY <2>1, <2>2
<1>4. /\ input' = [p \in Proc |-> input'[p]] /\ offset' = [p \in Proc |-> offset'[p]]
      /\ provenance' = [p \in Proc |-> provenance'[p]]
  BY <1>1, <1>2
<1>5. Inputs'
  BY <1>3, <1>4 DEF Inputs
<1>6. Objects' /\ Streams' /\ Files' /\ Saving' /\ size' \in Sizes
  BY Same DEF Load, Kept, files
<1> QED
  BY <1>5, <1>6 DEF Kept

LEMMA KeptNext == ASSUME Kept, [JobNext]_jobVars PROVE Kept'
<1>1. ASSUME NEW p \in Proc, ClearInput(p) \/ SaveStream(p) \/ LoadStream(p) PROVE Kept'
  BY <1>1, KeptClearInput, KeptSaveStream, KeptLoadStream
<1>2. ASSUME NEW p \in Proc, NEW i \in Id, Compute(p, i) \/ AddObject(p, i) \/ RemoveObject(p, i) PROVE Kept'
  BY <1>2, KeptCompute, KeptAddOrRemove
<1>3. ASSUME NEW p \in Proc, NEW i \in Id, NEW add \in BOOLEAN, RestoreObject(p, i, add) PROVE Kept'
  BY <1>3, KeptRestoreObject
<1>4. ASSUME NEW f \in File, Save(f) \/ WriteData(f) \/ TruncateSizes(f) \/ WriteSizes(f) \/ Load(f)
      PROVE  Kept'
  BY <1>4, KeptSave, KeptWriteData, KeptTruncateSizes, KeptWriteSizes, KeptLoad
<1>5. ASSUME NEW S \in SUBSET (1 .. size), JobFails(S) PROVE Kept'
  BY <1>5, KeptFail
<1>6. CASE UNCHANGED jobVars
  <2>1. /\ UNCHANGED <<size, object, registered, input, offset, stream, streamed, provenance>>
        /\ UNCHANGED <<job, data, sizes, saved>>
    BY <1>6 DEF jobVars, memory, files
  <2>2. Saving'
    <3>1. Snapshots' = Snapshots
      BY <2>1 DEF Snapshots, Snapshot
    <3> QED
      BY <2>1, <3>1 DEF Kept, Saving, IsSaving
  <2> QED
    BY <2>1, <2>2, Same DEF Kept
<1> QED
  BY <1>1, <1>2, <1>3, <1>4, <1>5, <1>6 DEF JobNext

LEMMA AlwaysKept == JobSpec => []Kept
BY KeptInit, KeptNext, PTL DEF JobSpec

\* What has been saved in full, in a plain or a compressed file, is read by as many
\* processes as it was put there, each its own objects, whatever has been computed,
\* saved under other names, restored or lost in failures since: the sizes lead each
\* process to its piece, whatever the lengths of the others, and the offsets found in
\* the piece to the objects.
THEOREM CheckpointsStay == JobSpec => []SavedStays
<1>1. Kept => SavedStays
  <2> SUFFICES ASSUME Kept PROVE SavedStays
    OBVIOUS
  <2>1. ASSUME NEW f \in File, saved[f].whole, saved[f].size = size, NEW p \in 1 .. size
        PROVE  /\ Len(sizes[f]) = size
               /\ f \in Compressed => CanUncompress(ReadOrdered(data[f], sizes[f], p), sizes[f][p][1])
               /\ Extracts(Loaded(f, p), Parse(Loaded(f, p))) = saved[f].objects[p]
    BY <2>1, WholeGives, ReadBack
  <2>2. ASSUME NEW f \in File, saved[f].whole, saved[f].size = size PROVE Len(sizes[f]) = size
    BY <2>2, WholeLength DEF Kept
  <2> QED
    BY <2>1, <2>2 DEF SavedStays
<1> QED
  BY <1>1, AlwaysKept, PTL

\* A compressed checkpoint that a failure has left incomplete is refused by a job of at
\* least as many processes as have saved it, or every process finds what it would find
\* if it was complete, although the sizes may be those of an earlier save: a process
\* goes on only if it has read from the begin of a piece, and so many begins that follow
\* each other are those of all pieces.
THEOREM TornIsRefused == JobSpec => []CompressedIsWhole
<1>1. Kept => CompressedIsWhole
  <2> SUFFICES ASSUME Kept, NEW p \in Proc, provenance[p].kind = "torn", provenance[p].objects # <<>>
               PROVE  Contents(p) = provenance[p].objects
    BY DEF CompressedIsWhole
  <2>1. HasInput(input[p], offset[p], provenance[p])
    BY DEF Kept, Inputs
  <2> QED
    BY <2>1 DEF HasInput, Contents
<1> QED
  BY <1>1, AlwaysKept, PTL

----------------------------------------------------------------------------
(* Checkpoints implement the store.                                        *)

\* The store's state, as the instance has it.
OnDisk == [f \in File |-> IF saved[f].whole
                          THEN [size |-> saved[f].size, objects |-> saved[f].objects]
                          ELSE [size |-> 0, objects |-> <<>>]]
HasLoaded == [p \in Proc |-> CASE provenance[p].kind = "checkpoint" ->
                                    [kind |-> "checkpoint", objects |-> Contents(p)]
                               [] provenance[p].kind = "torn" ->
                                    [kind |-> "something", objects |-> <<>>]
                               [] OTHER -> provenance[p]]

\* What a process has loaded, of the state of that process.
LoadedOf(in, off, org) ==
  CASE org.kind = "checkpoint" -> [kind |-> "checkpoint", objects |-> Extracts(in.cells, off)]
    [] org.kind = "torn" -> [kind |-> "something", objects |-> <<>>]
    [] OTHER -> org

LEMMA HasLoadedIs ==
  /\ HasLoaded = [p \in Proc |-> LoadedOf(input[p], offset[p], provenance[p])]
  /\ HasLoaded' = [p \in Proc |-> LoadedOf(input'[p], offset'[p], provenance'[p])]
BY DEF HasLoaded, LoadedOf, Contents

\* With zlib, it is what the provenance says.
LEMMA LoadedOfIs ==
  ASSUME Zlib, NEW in, NEW off, NEW org, HasInput(in, off, org)
  PROVE  /\ ~in.loaded <=> LoadedOf(in, off, org) = Nothing
         /\ org.kind = "checkpoint" => LoadedOf(in, off, org) = org
         /\ org.kind = "torn" => LoadedOf(in, off, org) = [kind |-> "something", objects |-> <<>>]
         /\ LoadedOf(in, off, org).kind = "checkpoint" =>
              LoadedOf(in, off, org).objects = Extracts(in.cells, off)
<1>1. CASE org.kind = "checkpoint"
  <2>1. org = [kind |-> "checkpoint", objects |-> org.objects] /\ Extracts(in.cells, off) = org.objects
    BY <1>1 DEF HasInput
  <2>2. LoadedOf(in, off, org) = org
    BY <1>1, <2>1 DEF LoadedOf
  <2>3. org # Nothing /\ in.loaded
    BY <1>1 DEF HasInput, Nothing, NoInput, Input
  <2> QED
    BY <1>1, <2>1, <2>2, <2>3
<1>2. CASE org.kind = "torn"
  <2>1. LoadedOf(in, off, org) = [kind |-> "something", objects |-> <<>>]
    BY <1>2 DEF LoadedOf
  <2>2. [kind |-> "something", objects |-> <<>>].kind = "something"
    OBVIOUS
  <2>3. LoadedOf(in, off, org) # Nothing /\ in.loaded
    BY <1>2, <2>1, <2>2 DEF HasInput, Nothing, NoInput, Input
  <2> QED
    BY <1>2, <2>1, <2>2, <2>3
<1>3. CASE org.kind # "checkpoint" /\ org.kind # "torn"
  <2>1. ~in.loaded /\ org = Nothing
    BY <1>3 DEF HasInput, NoInput, Input
  <2>2. LoadedOf(in, off, org) = Nothing /\ Nothing.kind # "checkpoint"
    BY <1>3, <2>1 DEF LoadedOf, Nothing
  <2> QED
    BY <1>3, <2>1, <2>2
<1> QED
  BY <1>1, <1>2, <1>3

LEMMA StoreInit == ASSUME JobInit PROVE Store!Init
<1>1. registered = [p \in Proc |-> {}] /\ streamed = [p \in Proc |-> Nothing]
  BY DEF JobInit
<1>2. HasLoaded = [p \in Proc |-> Nothing]
  BY HasLoadedIs DEF JobInit, LoadedOf, Nothing
<1>3. OnDisk = [f \in File |-> [size |-> 0, objects |-> <<>>]]
  BY DEF JobInit, OnDisk
<1> QED
  BY <1>1, <1>2, <1>3 DEF Store!Init, Store!Nothing, Store!Torn, Nothing, HasLoaded, OnDisk

\* The program computes, registers and forgets.
LEMMA StoreCompute == ASSUME Kept, NEW p \in Proc, NEW i \in Id, Compute(p, i) PROVE Store!Compute(p)
<1>1. /\ UNCHANGED <<size, registered, streamed, input, offset, provenance, saved>>
      /\ \E v : object' = [object EXCEPT ![p][i] = v]
  BY DEF Compute, files
<1>2. HasLoaded' = HasLoaded /\ OnDisk' = OnDisk
  BY <1>1, HasLoadedIs DEF OnDisk
<1>3. \A q \in Proc : \A j \in DOMAIN object[q] : q # p \/ j # i => object'[q][j] = object[q][j]
  <2>1. object = [q \in Proc |-> object[q]]
    BY DEF Kept, Objects
  <2>2. PICK v : object' = [object EXCEPT ![p][i] = v]
    BY <1>1
  <2> QED
    BY <2>1, <2>2
<1> QED
  BY <1>1, <1>2, <1>3 DEF Store!Compute, Store!OnlyChanges, HasLoaded, OnDisk

LEMMA StoreRegister ==
  ASSUME Kept, NEW p \in Proc, NEW i \in Id, AddObject(p, i) \/ RemoveObject(p, i)
  PROVE  Store!Register(p, i)
<1>1. /\ UNCHANGED <<size, object, streamed, input, offset, provenance, saved>>
      /\ registered' \in {[registered EXCEPT ![p] = @ \cup {i}], [registered EXCEPT ![p] = @ \ {i}]}
  BY DEF AddObject, RemoveObject, files
<1>2. HasLoaded' = HasLoaded /\ OnDisk' = OnDisk
  BY <1>1, HasLoadedIs DEF OnDisk
<1> QED
  BY <1>1, <1>2 DEF Store!Register, HasLoaded, OnDisk

LEMMA StoreForget == ASSUME Kept, NEW p \in Proc, ClearInput(p) PROVE Store!Forget(p)
<1>1. /\ UNCHANGED <<size, object, registered, streamed, saved>>
      /\ input' = [input EXCEPT ![p] = NoInput] /\ offset' = [offset EXCEPT ![p] = <<>>]
      /\ provenance' = [provenance EXCEPT ![p] = Nothing]
  BY DEF ClearInput, Forget, files
<1>2. OnDisk' = OnDisk
  BY <1>1 DEF OnDisk
<1>3. HasLoaded' = [HasLoaded EXCEPT ![p] = Nothing]
  <2>1. LoadedOf(NoInput, <<>>, Nothing) = Nothing
    BY DEF LoadedOf, Nothing
  <2>2. /\ input'[p] = NoInput /\ offset'[p] = <<>> /\ provenance'[p] = Nothing
        /\ \A q \in Proc : q # p => input'[q] = input[q] /\ offset'[q] = offset[q] /\ provenance'[q] = provenance[q]
    BY <1>1 DEF Kept, Inputs
  <2>3. HasLoaded'[p] = Nothing /\ \A q \in Proc : q # p => HasLoaded'[q] = HasLoaded[q]
    BY <2>1, <2>2, HasLoadedIs
  <2>4. HasLoaded = [q \in Proc |-> HasLoaded[q]] /\ HasLoaded' = [q \in Proc |-> HasLoaded'[q]]
    BY HasLoadedIs
  <2> QED
    BY <2>3, <2>4
<1> QED
  BY <1>1, <1>2, <1>3 DEF Store!Forget, Store!Nothing, Nothing, HasLoaded, OnDisk

\* An object is restored from what has been loaded.
LEMMA StoreRestore ==
  ASSUME Zlib, Kept, NEW p \in Proc, NEW i \in Id, NEW add \in BOOLEAN, RestoreObject(p, i, add)
  PROVE  Store!Restore(p, i)
<1> DEFINE v == Extract(input[p].cells, offset[p][i])
<1>1. /\ UNCHANGED <<size, streamed, input, offset, provenance, saved>>
      /\ object' = [object EXCEPT ![p][i] = v]
      /\ registered' \in {registered, [registered EXCEPT ![p] = @ \cup {i}]}
      /\ input[p].loaded /\ i \in DOMAIN offset[p] /\ i \in DOMAIN object[p]
  BY DEF RestoreObject, files
<1>2. HasLoaded' = HasLoaded /\ OnDisk' = OnDisk
  BY <1>1, HasLoadedIs DEF OnDisk
<1>3. HasInput(input[p], offset[p], provenance[p])
  BY DEF Kept, Inputs
<1>4. HasLoaded[p] = LoadedOf(input[p], offset[p], provenance[p])
  BY HasLoadedIs
<1>5. /\ HasLoaded[p] # Nothing
      /\ HasLoaded[p].kind = "checkpoint" => HasLoaded[p].objects = Extracts(input[p].cells, offset[p])
  BY <1>1, <1>3, <1>4, LoadedOfIs
<1>6. i \in DOMAIN Extracts(input[p].cells, offset[p]) /\ Extracts(input[p].cells, offset[p])[i] = v
  BY <1>1 DEF Extracts
<1> HIDE DEF v
<1>7. object = [q \in Proc |-> object[q]] /\ object[p] = [j \in DOMAIN MayHold[p] |-> object[p][j]]
  BY DEF Kept, Objects, HasObjects
<1>8. object'[p][i] = v
  BY <1>1, <1>7
<1>9. \A q \in Proc : \A j \in DOMAIN object[q] : q # p \/ j # i => object'[q][j] = object[q][j]
  BY <1>1, <1>7
<1>10. HasLoaded[p].kind = "checkpoint" =>
         i \in DOMAIN HasLoaded[p].objects /\ object'[p][i] = HasLoaded[p].objects[i]
  BY <1>5, <1>6, <1>8
<1> QED
  BY <1>1, <1>2, <1>5, <1>9, <1>10
  DEF Store!Restore, Store!OnlyChanges, Store!Nothing, Nothing, HasLoaded, OnDisk

\* Streams.
LEMMA StoreSaveStream == ASSUME Kept, NEW p \in Proc, SaveStream(p) PROVE Store!StoreOwn(p)
<1>1. /\ UNCHANGED <<size, object, registered, input, offset, provenance, saved>>
      /\ streamed' = [streamed EXCEPT ![p] = Snapshot(p)]
  BY DEF SaveStream, files
<1>2. HasLoaded' = HasLoaded /\ OnDisk' = OnDisk
  BY <1>1, HasLoadedIs DEF OnDisk
<1> QED
  BY <1>1, <1>2 DEF Store!StoreOwn, Store!Checkpoint, Store!Snapshot, Store!Memory, Snapshot, HasLoaded, OnDisk

LEMMA StoreLoadStream == ASSUME Zlib, Kept, NEW p \in Proc, LoadStream(p) PROVE Store!LoadOwn(p)
<1>1. /\ UNCHANGED <<size, object, registered, streamed, saved>>
      /\ stream[p].loaded /\ ~input[p].loaded
      /\ provenance' = [provenance EXCEPT ![p] = streamed[p]]
      /\ \E a, b : input' = [input EXCEPT ![p] = a] /\ offset' = [offset EXCEPT ![p] = b]
  BY DEF LoadStream, files
<1>2. OnDisk' = OnDisk
  BY <1>1 DEF OnDisk
<1>3. Kept'
  BY KeptLoadStream
<1>4. HasInput(input[p], offset[p], provenance[p]) /\ HasInput(input'[p], offset'[p], provenance'[p])
  BY <1>3 DEF Kept, Inputs
<1>5. HasLoaded[p] = Nothing
  BY <1>1, <1>4, HasLoadedIs, LoadedOfIs
<1>6. PICK own : own = streamed[p] /\ own = [kind |-> "checkpoint", objects |-> own.objects]
  BY <1>1 DEF Kept, Streams, HasStream
<1>7. own.kind = "checkpoint" /\ own # Nothing
  BY <1>6 DEF Nothing
<1>8. /\ provenance'[p] = own
      /\ \A q \in Proc : q # p => input'[q] = input[q] /\ offset'[q] = offset[q] /\ provenance'[q] = provenance[q]
  BY <1>1, <1>6 DEF Kept, Inputs
<1>9. LoadedOf(input'[p], offset'[p], provenance'[p]) = own
  BY <1>4, <1>7, <1>8, LoadedOfIs
<1>10. HasLoaded' = [HasLoaded EXCEPT ![p] = own]
  <2>1. HasLoaded'[p] = own /\ \A q \in Proc : q # p => HasLoaded'[q] = HasLoaded[q]
    BY <1>8, <1>9, HasLoadedIs
  <2>2. HasLoaded = [q \in Proc |-> HasLoaded[q]] /\ HasLoaded' = [q \in Proc |-> HasLoaded'[q]]
    BY HasLoadedIs
  <2> QED
    BY <2>1, <2>2
<1> QED
  BY <1>1, <1>2, <1>5, <1>6, <1>7, <1>10
  DEF Store!LoadOwn, Store!Nothing, Nothing, HasLoaded, OnDisk

\* Files.
LEMMA StoreSave == ASSUME Kept, NEW f \in File, Save(f) PROVE Store!Begin(f)
<1>1. /\ UNCHANGED <<size, object, registered, streamed, input, offset, provenance>>
      /\ saved' = [saved EXCEPT ![f] = [whole |-> FALSE, size |-> size, objects |-> Snapshots]]
  BY DEF Save, memory, Snapshots
<1>2. HasLoaded' = HasLoaded
  BY <1>1, HasLoadedIs
<1>3. saved'[f].whole = FALSE /\ \A g \in File : g # f => saved'[g] = saved[g]
  BY <1>1 DEF Kept, Files
<1>4. OnDisk' = [OnDisk EXCEPT ![f] = [size |-> 0, objects |-> <<>>]]
  BY <1>3 DEF OnDisk
<1> QED
  BY <1>1, <1>2, <1>4 DEF Store!Begin, Store!Memory, Store!Torn, HasLoaded, OnDisk

LEMMA StoreWriteSizes == ASSUME Kept, NEW f \in File, WriteSizes(f) PROVE Store!Store(f)
<1>1. /\ UNCHANGED <<size, object, registered, streamed, input, offset, provenance>>
      /\ saved' = [saved EXCEPT ![f].whole = TRUE]
      /\ job.file = f /\ job.at = "sizes"
  BY DEF WriteSizes, memory, JobAt
<1>2. HasLoaded' = HasLoaded
  BY <1>1, HasLoadedIs
<1>3. saved[f] = [whole |-> FALSE, size |-> size, objects |-> Snapshots]
  BY <1>1, InSave
<1>4. PICK a : a = saved[f]
  OBVIOUS
<1>5. /\ saved'[f] = [a EXCEPT !.whole = TRUE]
      /\ \A g \in File : g # f => saved'[g] = saved[g]
  BY <1>1, <1>4 DEF Kept, Files
<1>6. PICK o, n : o = Snapshots /\ n = size
  OBVIOUS
<1>7. a \in [whole : BOOLEAN, size : {n}, objects : {o}]
  BY <1>3, <1>4, <1>6
<1>8. PICK b : b = saved'[f]
  OBVIOUS
<1>9. b.whole = TRUE /\ b.size = n /\ b.objects = o
  BY <1>5, <1>7, <1>8
<1>10. OnDisk' = [OnDisk EXCEPT ![f] = [size |-> n, objects |-> o]]
  BY <1>5, <1>8, <1>9 DEF OnDisk
<1>11. Snapshots = [p \in 1 .. size |-> Store!Snapshot(p)]
  BY DEF Snapshots, Snapshot, Store!Snapshot
<1> QED
  BY <1>1, <1>2, <1>6, <1>10, <1>11 DEF Store!Store, Store!Memory, HasLoaded, OnDisk

LEMMA StoreLoad == ASSUME Zlib, Kept, NEW f \in File, Load(f) PROVE Store!Load(f)
<1>1. /\ UNCHANGED <<size, object, registered, streamed, saved>>
      /\ provenance' = [p \in Proc |-> IF p <= size THEN OriginOf(f, p) ELSE Nothing]
      /\ \A p \in 1 .. size : ~input[p].loaded
      /\ Len(sizes[f]) = size
  BY DEF Load, files
<1>2. Kept' /\ size \in Nat \ {0} /\ \A p \in Proc : p <= size <=> p \in 1 .. size
  BY KeptLoad, SizeIs DEF Kept, Proc
<1>3. \A p \in Proc : HasInput(input[p], offset[p], provenance[p]) /\ HasInput(input'[p], offset'[p], provenance'[p])
  BY <1>2 DEF Kept, Inputs
<1>4. \A p \in 1 .. size : p \in Proc
  BY InProc DEF Kept
<1>5. \A p \in 1 .. size : HasLoaded[p] = Nothing
  BY <1>1, <1>3, <1>4, HasLoadedIs, LoadedOfIs
<1>6. OnDisk' = OnDisk
  BY <1>1 DEF OnDisk
<1>7. ASSUME NEW p \in Proc, ~(p \in 1 .. size) PROVE HasLoaded'[p] = Nothing
  <2>1. provenance'[p] = Nothing
    BY <1>1, <1>2, <1>7
  <2> QED
    BY <2>1, HasLoadedIs DEF LoadedOf, Nothing
<1>8. HasLoaded' = [p \in Proc |-> HasLoaded'[p]]
  BY HasLoadedIs
<1>9. CASE saved[f].whole
  <2>1. saved[f].size = size
    BY <1>1, <1>9, WholeLength DEF Kept
  <2>2. ASSUME NEW p \in Proc, p \in 1 .. size
        PROVE  HasLoaded'[p] = [kind |-> "checkpoint", objects |-> saved[f].objects[p]]
    <3>1. provenance'[p] = [kind |-> "checkpoint", objects |-> saved[f].objects[p]]
      BY <1>1, <1>2, <1>9, <2>2 DEF OriginOf
    <3>2. PICK a, b, c : a = input'[p] /\ b = offset'[p] /\ c = provenance'[p]
      OBVIOUS
    <3>3. c.kind = "checkpoint"
      BY <3>1, <3>2
    <3>4. LoadedOf(a, b, c) = c
      BY <1>3, <3>2, <3>3, LoadedOfIs
    <3> QED
      BY <3>1, <3>2, <3>4, HasLoadedIs
  <2>3. HasLoaded' = [p \in Proc |-> IF p \in 1 .. size
                                     THEN [kind |-> "checkpoint", objects |-> saved[f].objects[p]]
                                     ELSE Nothing]
    BY <1>7, <1>8, <2>2
  <2>4. OnDisk[f].size = size /\ OnDisk[f].objects = saved[f].objects
    BY <1>9, <2>1 DEF OnDisk
  <2> QED
    BY <1>1, <1>5, <1>6, <2>3, <2>4
    DEF Store!Load, Store!Checkpoint, Store!Nothing, Nothing, HasLoaded, OnDisk
<1>10. CASE ~saved[f].whole
  <2>1. ASSUME NEW p \in Proc, p \in 1 .. size
        PROVE  HasLoaded'[p] = [kind |-> "something", objects |-> <<>>]
    <3>1. provenance'[p].kind = "torn"
      BY <1>1, <1>2, <1>10, <2>1 DEF OriginOf
    <3>2. PICK a, b, c : a = input'[p] /\ b = offset'[p] /\ c = provenance'[p]
      OBVIOUS
    <3>3. LoadedOf(a, b, c) = [kind |-> "something", objects |-> <<>>]
      BY <1>3, <3>1, <3>2, LoadedOfIs
    <3> QED
      BY <3>2, <3>3, HasLoadedIs
  <2>2. HasLoaded' = [p \in Proc |-> IF p \in 1 .. size
                                     THEN [kind |-> "something", objects |-> <<>>] ELSE Nothing]
    BY <1>7, <1>8, <2>1
  <2>3. OnDisk[f] = [size |-> 0, objects |-> <<>>]
    BY <1>10 DEF OnDisk
  <2> QED
    BY <1>1, <1>5, <1>6, <2>2, <2>3
    DEF Store!Load, Store!Something, Store!Torn, Store!Nothing, Nothing, HasLoaded, OnDisk
<1> QED
  BY <1>9, <1>10

LEMMA StoreRestart == ASSUME Restart PROVE Store!Restart
<1>1. /\ registered' = [p \in Proc |-> {}] /\ streamed' = [p \in Proc |-> Nothing] /\ saved' = saved
      /\ provenance' = [p \in Proc |-> Nothing]
  BY DEF Restart
<1>2. OnDisk' = OnDisk
  BY <1>1 DEF OnDisk
<1>3. HasLoaded' = [p \in Proc |-> Nothing]
  BY <1>1, HasLoadedIs DEF LoadedOf, Nothing
<1> QED
  BY <1>1, <1>2, <1>3 DEF Store!Restart, Store!Nothing, Nothing, HasLoaded, OnDisk

LEMMA StoreNext == ASSUME Zlib, Kept, [JobNext]_jobVars PROVE [Store!Next]_(Store!vars)
<1>1. ASSUME NEW p \in Proc, ClearInput(p) \/ SaveStream(p) \/ LoadStream(p) PROVE Store!Next
  BY <1>1, StoreForget, StoreSaveStream, StoreLoadStream DEF Store!Next
<1>2. ASSUME NEW p \in Proc, NEW i \in Id, Compute(p, i) \/ AddObject(p, i) \/ RemoveObject(p, i)
      PROVE  Store!Next
  BY <1>2, StoreCompute, StoreRegister DEF Store!Next
<1>3. ASSUME NEW p \in Proc, NEW i \in Id, NEW add \in BOOLEAN, RestoreObject(p, i, add) PROVE Store!Next
  BY <1>3, StoreRestore DEF Store!Next
<1>4. ASSUME NEW f \in File, Save(f) \/ WriteSizes(f) \/ Load(f) PROVE Store!Next
  BY <1>4, StoreSave, StoreWriteSizes, StoreLoad DEF Store!Next
<1>5. ASSUME UNCHANGED <<size, object, registered, streamed, saved, input, offset, provenance>>
      PROVE  UNCHANGED Store!vars
  <2>1. HasLoaded' = HasLoaded /\ OnDisk' = OnDisk
    BY <1>5, HasLoadedIs DEF OnDisk
  <2> QED
    BY <1>5, <2>1 DEF Store!vars, HasLoaded, OnDisk
<1>6. ASSUME NEW f \in File, WriteData(f) \/ TruncateSizes(f) PROVE UNCHANGED Store!vars
  BY <1>5, <1>6 DEF WriteData, TruncateSizes, memory
<1>7. ASSUME NEW S \in SUBSET (1 .. size), JobFails(S) PROVE Store!Next
  BY <1>7, StoreRestart DEF JobFails, Store!Next
<1>8. CASE UNCHANGED jobVars
  BY <1>5, <1>8 DEF jobVars, memory, files
<1> QED
  BY <1>1, <1>2, <1>3, <1>4, <1>6, <1>7, <1>8 DEF JobNext

\* With zlib, checkpoints in files and streams implement the store: a name holds what has
\* been put there last in full by all processes, or is torn from the begin of the next
\* save to its end; a load finds the one or the other, and what is restored comes from it.
\* (Without zlib the last byte of a stream is lost; see FromStream.)
THEOREM CheckpointsAreAStore == ASSUME Zlib PROVE JobSpec => ImplementsStore
<1>1. JobInit => Store!Init
  BY StoreInit
<1>2. Kept /\ [JobNext]_jobVars => [Store!Next]_(Store!vars)
  BY StoreNext
<1> QED
  BY <1>1, <1>2, AlwaysKept, PTL DEF JobSpec, ImplementsStore, Store!Spec
=============================================================================
