----------------------------- MODULE NodeArrays ------------------------------
(***************************************************************************)
(* The nodes of a graph, counted from 0, and arrays that are allocated for *)
(* them without being initialised.                                         *)
(***************************************************************************)
EXTENDS Integers

CONSTANTS NumNodes,  \* nodes of the graph
          Unset      \* an entry of an array that was not assigned

ASSUME NumNodesAssumption == NumNodes \in Nat \ {0}
ASSUME UnsetAssumption == Unset \notin Nat

Node == 0 .. NumNodes - 1
UnsetArray == [i \in Node |-> Unset]
=============================================================================
