------------------------------ MODULE MCSession ------------------------------
(* A small instance of the seed's capture and the runs after it. *)
EXTENDS SessionLife
==============================================================================
