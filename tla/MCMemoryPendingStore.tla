------------------------ MODULE MCMemoryPendingStore ------------------------
(* Small instances of MemoryPendingStore for TLC. *)
EXTENDS MemoryPendingStore, TLC

Symmetry == Permutations(Keys) \cup Permutations(Entries)
                \cup Permutations(Waiters) \cup Permutations(Results)
=============================================================================
