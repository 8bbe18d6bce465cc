------------------------------- MODULE MCLock --------------------------------
(* Three runs and the lock of a fourth, dead one, on either backend. *)
EXTENDS Lock, TLC

RunSymmetry == Permutations(Runs)

==============================================================================
