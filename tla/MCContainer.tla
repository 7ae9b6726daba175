---------------------------- MODULE MCContainer -----------------------------
EXTENDS Container, TLC

CONSTANTS c1, c2, c3, c4, l1, l2, a1, a2, a3, a4, v1

MCSlot == {"elements", "col_ind"}
CSRSlot == {"elements", "col_ind", "row_ptr"}
MCElementSlot == {"elements"}

\* A vector, a matrix, and SparseMatrixCSR(rows, columns, 0).
Vector == [elements |-> "sized", col_ind |-> "none"]
Matrix == [elements |-> "sized", col_ind |-> "sized"]
EmptyCSR == [elements |-> "zero", col_ind |-> "zero", row_ptr |-> "sized"]
FullShapes == {Vector, Matrix}
EmptyShapes == {EmptyCSR}

\* A container of another data type; indices have one type.
OneIndexType == [o \in Con \cup Layout |-> "T"]
TwoDataTypes == [o \in Con \cup Layout |-> IF o = c2 THEN "float" ELSE "T"]

\* The run makes no delicate call; with one of the others, or with matrices without
\* entries, TLC finds what the README says of them.
NoDelicateCalls == {}
RangeTarget == {"range_target"}
SelfAssign == {"self_assign"}
LayoutOver == {"layout_over"}

\* A range, its vector and where it is moved are three containers of one type; with one of
\* another type there are four, of which, and of two layouts, four live at a time.
FewLive == Cardinality(live) <= 4

\* Addresses, and containers of one type, are interchangeable.
Symmetry == {p @@ q : p \in Permutations(Addr), q \in Permutations({c1, c3, c4})}
=============================================================================
