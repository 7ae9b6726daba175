----------------------------- MODULE MCCheckpoint ---------------------------
EXTENDS Checkpoint, TLC

\* The first process has a vector that is resized, and a matrix; the second one a vector.
VectorsAndMatrix ==
  <<[vector |-> {<<7>>, <<8, 9>>}, matrix |-> {<<5>>}], [vector |-> {<<6>>}]>>
=============================================================================
