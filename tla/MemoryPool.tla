----------------------------- MODULE MemoryPool -----------------------------
(***************************************************************************)
(* The reference-counting pool of main memory, MemoryPool<Mem::Main>.      *)
(*                                                                         *)
(* The code keeps std::map<void*, MemoryInfo>, from the start address of   *)
(* every array it handed out to a counter.  Here a pool is a function from *)
(* all addresses to the counter, and 0 stands for "not in the map".        *)
(*                                                                         *)
(* Callers always walk over a list of pointers (the arrays of a            *)
(* container), so the operators below take such a list at once: a function *)
(* from the slots of a container to pointers.  A pointer is a pair of an   *)
(* address and 0 (the start of an array, a key of the map) or 1 (somewhere *)
(* inside the array, never a key of the map), or NullPtr (what             *)
(* allocate_memory returns for a count of 0), or NoPtr (the container has  *)
(* no array in this slot).                                                 *)
(***************************************************************************)
EXTENDS Integers, FiniteSets

CONSTANTS Addr,     \* the addresses malloc may return
          Slot,     \* the positions of arrays in a container
          NullPtr,  \* C++'s nullptr
          NoPtr     \* no array in this slot

Pointer == (Addr \X {0, 1}) \cup {NullPtr, NoPtr}

ASSUME PointerAssumption ==
  /\ IsFiniteSet(Slot)
  /\ NullPtr \notin Addr \X {0, 1}
  /\ NoPtr \notin Addr \X {0, 1}
  /\ NullPtr # NoPtr

Start(a) == <<a, 0>>
Inside(a) == <<a, 1>>

Pool == [Addr -> Nat]
EmptyPool == [a \in Addr |-> 0]
InPool(pool, a) == pool[a] > 0

\* The slots of the list m that hold the key a.
SlotsAt(m, a) == {s \in Slot : m[s] = Start(a)}

\* A list of pointers that is all NoPtr: a container without arrays.
NoArrays == [s \in Slot |-> NoPtr]

\* The part of a list in the slots of S.
Only(m, S) == [s \in Slot |-> IF s \in S THEN m[s] ELSE NoPtr]

----------------------------------------------------------------------------
(***************************************************************************)
(* release_memory for every pointer of the list: a null pointer is         *)
(* ignored, an address outside the pool throws, the last reference frees   *)
(* the array and erases its key.                                           *)
(***************************************************************************)
CanRelease(pool, m) ==
  \A s \in Slot :
     \/ m[s] \in {NoPtr, NullPtr}
     \/ \E a \in Addr : m[s] = Start(a) /\ pool[a] >= Cardinality(SlotsAt(m, a))

ReleaseAtFirst(pool, m) == [a \in Addr |-> IF SlotsAt(m, a) = {} THEN pool[a] ELSE 0]
Release(pool, m) == [a \in Addr |-> pool[a] - Cardinality(SlotsAt(m, a))]

(***************************************************************************)
(* increase_memory for every pointer of the list: the null pointer fails   *)
(* an assertion, an address outside the pool throws.                       *)
(***************************************************************************)
AssertsOnIncrease(m) == \E s \in Slot : m[s] = NullPtr

CanIncrease(pool, m) ==
  \A s \in Slot :
     m[s] = NoPtr \/ \E a \in Addr : m[s] = Start(a) /\ InPool(pool, a)

Increase(pool, m) == [a \in Addr |-> pool[a] + Cardinality(SlotsAt(m, a))]

(***************************************************************************)
(* allocate_memory for every slot of sized and of zero: fresh keys, all    *)
(* different, for the former, and the null pointer for a count of 0.       *)
(***************************************************************************)
Sized(p) == p \notin {NoPtr, NullPtr}

Allocations(pool, sized, zero) ==
  LET free == {a \in Addr : ~InPool(pool, a)}
  IN  {[s \in Slot |-> IF s \in sized THEN Start(f[s])
                       ELSE IF s \in zero THEN NullPtr ELSE NoPtr] :
         f \in {g \in [sized -> free] : \A s, t \in sized : g[s] = g[t] => s = t}}
=============================================================================
