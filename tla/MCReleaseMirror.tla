--------------------------- MODULE MCReleaseMirror ---------------------------
(* A small instance of a mirror on GitHub releases. *)
EXTENDS ReleaseMirror, TLC

Interchangeable == Permutations(Putters) \cup Permutations(Names)
==============================================================================
