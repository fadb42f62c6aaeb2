----------------------------- MODULE MCFileLocks -----------------------------
(* Small instances of FileLocks for TLC. *)
EXTENDS FileLocks, TLC

Symmetry == Permutations(Path) \union Permutations(Worker) \union Permutations(Request)
=============================================================================
