---------------------------- MODULE SharedArrays ----------------------------
(***************************************************************************)
(* What the containers promise their users, without counters, addresses or *)
(* explicit release: objects refer to array cells, a cell lives as long as *)
(* somebody refers to it, several objects may share one, and the contents  *)
(* of a cell that an object sees change only when some object that refers  *)
(* to this cell writes.  A new array is a cell nobody refers to.           *)
(***************************************************************************)
CONSTANTS Obj,     \* containers and matrix layouts
          Slot,    \* the positions of arrays in an object
          Cell,    \* array cells
          Value,   \* contents of a cell
          NoCell   \* no array (or one without entries) in this position

VARIABLES ref,  \* the cells an object refers to
          val   \* the contents of the cells

vars == <<ref, val>>

CellsOf(o) == {ref[o][s] : s \in Slot} \ {NoCell}
Referenced == UNION {CellsOf(o) : o \in Obj}
ReferencedBut(o) == UNION {CellsOf(p) : p \in Obj \ {o}}

Init ==
  /\ ref = [o \in Obj |-> [s \in Slot |-> NoCell]]
  /\ val \in [Cell -> Value]

\* The object drops its arrays and takes others: each one a cell it shares
\* with some object, or a new cell of its own.  No cell another object refers
\* to changes its contents.
Rebind(o) ==
  /\ \E m \in [Slot -> Cell \cup {NoCell}] :
       /\ ref' = [ref EXCEPT ![o] = m]
       /\ \A s, t \in Slot :
            m[s] = m[t] /\ m[s] # NoCell /\ s # t => m[s] \in Referenced
  /\ val' \in [Cell -> Value]
  /\ \A c \in ReferencedBut(o) : val'[c] = val[c]

\* The object writes to its arrays, and to nothing else that is in use.
Write(o) ==
  /\ UNCHANGED ref
  /\ val' \in [Cell -> Value]
  /\ \A c \in Referenced \ CellsOf(o) : val'[c] = val[c]

\* An object takes over the arrays of another one, contents included.
Take(o, p) ==
  /\ o # p
  /\ ref' = [ref EXCEPT ![o] = ref[p], ![p] = [s \in Slot |-> NoCell]]
  /\ val' \in [Cell -> Value]
  /\ \A q \in Obj : \A c \in CellsOf(q)' : val'[c] = val[c]

Next == \E o \in Obj : Rebind(o) \/ Write(o) \/ (\E p \in Obj : Take(o, p))

Spec == Init /\ [][Next]_vars
=============================================================================
