---------------------------- MODULE Communicator ----------------------------
(***************************************************************************)
(* Tickets of all kinds run on the same communicator, Dist::Comm.          *)
(***************************************************************************)

CONSTANT Rank  \* its processes
=============================================================================
