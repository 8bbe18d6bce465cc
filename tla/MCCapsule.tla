------------------------------ MODULE MCCapsule ------------------------------
(* Small instances of the capsule: see the .cfg files for who takes part. *)
EXTENDS Capsule, TLC

Everyone == {Procs}

(* The runs and the readers, the seeds and the readers, or a run and a seed. *)
RunsOrSeeds == {Runs \cup Readers, Seeds \cup Readers}
                 \cup {{r, s} : r \in Runs, s \in Seeds}

Interchangeable == Permutations(Runs) \cup Permutations(Seeds)
==============================================================================
