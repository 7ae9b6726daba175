---------------------------- MODULE MCReordering -----------------------------
EXTENDS Reordering

\* Three cells that have one, two or three of four DOFs each.
Lists == {<<1>>, <<3>>, <<0, 1>>, <<2, 0>>, <<3, 0>>, <<3, 2>>, <<2, 1, 0>>, <<1, 3, 2>>}
MCDofGraphs == [0 .. 2 -> Lists]
=============================================================================
