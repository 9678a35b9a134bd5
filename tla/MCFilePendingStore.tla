------------------------- MODULE MCFilePendingStore -------------------------
(* Small instances of FilePendingStore for TLC. *)
EXTENDS FilePendingStore, TLC

Symmetry == Permutations(Procs) \cup Permutations(Keys) \cup Permutations(Values)
=============================================================================
