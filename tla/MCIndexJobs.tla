----------------------------- MODULE MCIndexJobs -----------------------------
(* Small instances of IndexJobs for TLC. *)
EXTENDS IndexJobs, TLC

\* Workers and request slots are interchangeable; jobs are ordered by creation.
Symmetry == Permutations(Worker) \union Permutations(Request)
=============================================================================
